---- MODULE Spec2Model ----
(***************************************************************************)
(* Model of the tokmz/cache Redis wrapper: the key/TTL policy of Config    *)
(* (config.go), the batch wrapper SinglePipeliner / ClusterPipeliner       *)
(* (pipeliner.go) with its result handles (client.go), and the driver's    *)
(* pipeline and store behind it, as the wrapper's calls use them; the      *)
(* validation of the deployment configuration (config.go) and the factory  *)
(* (factory.go); and the reads, writes and listings of the client          *)
(* (single_client.go, SentinelClient in client.go).                        *)
(* Further specifications over the same variables follow the life of a     *)
(* factory, two concurrent callers of Incr, two batches of one client, and *)
(* the three topologies side by side; there cmds, handles, issued, phase   *)
(* and ret hold one entry per caller, batch or topology, as each section   *)
(* says.                                                                   *)
(*                                                                         *)
(* Strings that the policy concatenates (keys, prefixes) are sequences of  *)
(* one-character strings; stored values are opaque strings.                *)
(***************************************************************************)
EXTENDS Integers, Sequences, FiniteSets, TLC

VARIABLES
    config,   \* the *Config shared by client and batch: KeyPrefix, DefaultTTL;
              \* for the factory, its deployment configuration
    store,    \* the key space of the store: store key -> entry
    cmds,     \* the driver pipeline's queue (p.pipe), in enqueue order
    handles,  \* the handles returned by the enqueue calls, by handle number
    issued,   \* history: by handle number, the store key its command names
              \* and what became of the command
    phase,    \* history: the batch state of spec 4.3 (Open/Executed/Discarded)
    ret,      \* what the last call returned
    pol       \* the last call of a policy function and its result

vars == <<config, store, cmds, handles, issued, phase, ret, pol>>

batchVars == <<store, cmds, handles, issued, phase, ret>>

-----------------------------------------------------------------------------
(* Bounds *)

\* Enqueue calls over the lifetime of the batch.
MaxCmds == 3

\* Length of the keys and prefixes given to the policy functions.
MaxKeyLen == 2

\* The longest address list of a cluster or sentinel configuration.
MaxAddrs == 1

\* Keys present in a store shared by several clients.
MaxKeys == 2

\* Length of the key and argument lists given to the client.
MaxArgs == 3

\* The largest counter value and list length the client writes build.
MaxSize == 2
MaxBatch == 1

-----------------------------------------------------------------------------
(* Errors *)

Nil == "nil"
\* redis.Nil: the reply to a read of a missing key
RedisNil == "redis: nil"
WrongType == "WRONGTYPE Operation against a key holding the wrong kind of value"
NotInteger == "ERR value is not an integer or out of range"
\* a transport failure of the round trip
ConnRefused == "dial tcp: connection refused"
ErrPipelineEmpty == "redis: pipeline is empty"
ErrPipelineClosed == "redis: pipeline is closed"

-----------------------------------------------------------------------------
(* Key/TTL policy: config.go *)

Chars == {"a", "p"}

RECURSIVE StringsUpTo(_)
StringsUpTo(n) ==
    IF n = 0 THEN {<<>>}
    ELSE LET shorter == StringsUpTo(n - 1)
         IN  shorter \cup {Append(s, c) : s \in shorter, c \in Chars}

Durations == -1 .. 2

PolicyConfigs ==
    [KeyPrefix : StringsUpTo(MaxKeyLen), DefaultTTL : {0, 2}]

GetKeyWithPrefixSuffixed(cfg, key) == key \o cfg.KeyPrefix

GetKeyWithPrefix(cfg, key) ==
    IF cfg.KeyPrefix = <<>> THEN key ELSE cfg.KeyPrefix \o key

GetTTLZeroIsExplicit(cfg, ttl) ==
    IF ttl >= 0 THEN ttl ELSE cfg.DefaultTTL

GetTTL(cfg, ttl) ==
    IF ttl > 0 THEN ttl ELSE cfg.DefaultTTL

NoCall == [fn |-> "none", key |-> <<>>, out |-> <<>>, ttl |-> 0, eff |-> 0]

CallGetKeyWithPrefix ==
    /\ \E key \in StringsUpTo(MaxKeyLen) :
          pol' = [fn |-> "GetKeyWithPrefix", key |-> key,
                  out |-> GetKeyWithPrefix(config, key), ttl |-> 0, eff |-> 0]
    /\ UNCHANGED <<config, batchVars>>

CallGetTTL ==
    /\ \E d \in Durations :
          pol' = [fn |-> "GetTTL", key |-> <<>>, out |-> <<>>,
                  ttl |-> d, eff |-> GetTTL(config, d)]
    /\ UNCHANGED <<config, batchVars>>

-----------------------------------------------------------------------------
(* Values: the typed val of a handle or reply (string, int64 or bool);     *)
(* the fields a kind does not use hold Go's zero value.                    *)

StrVal(s) == [s |-> s, n |-> 0, b |-> FALSE]
IntVal(n) == [s |-> "", n |-> n, b |-> FALSE]
BoolVal(b) == [s |-> "", n |-> 0, b |-> b]
Zero == [s |-> "", n |-> 0, b |-> FALSE]

\* strconv of the store's integer strings, for the counters Incr keeps
Digits == <<"0", "1", "2", "3", "4", "5", "6", "7", "8", "9">>
IsInt(s) == \E i \in 1 .. Len(Digits) : Digits[i] = s
Atoi(s) == (CHOOSE i \in 1 .. Len(Digits) : Digits[i] = s) - 1
Itoa(n) == Digits[n + 1]

-----------------------------------------------------------------------------
(* The store, as the commands the wrapper forwards act on it *)

CallerKeys == {<<"a">>, <<"b">>}
Values == {"v1"}
Expirations == {0}

MainConfigs == {[KeyPrefix |-> <<"p">>, DefaultTTL |-> 2]}

StoreKeys(cfg) == {GetKeyWithPrefix(cfg, k) : k \in CallerKeys}

Absent == [type |-> "none", str |-> "", list |-> <<>>, ttl |-> 0]
StringEntry(v, ttl) == [type |-> "string", str |-> v, list |-> <<>>, ttl |-> ttl]
ListEntry(l, ttl) == [type |-> "list", str |-> "", list |-> l, ttl |-> ttl]

\* The calls a caller can make on a batch: op(key, val, exp).
CallerCommands ==
    [op : {"Set", "SetNX"}, key : CallerKeys, val : Values, exp : Expirations]
    \cup [op : {"Get", "Incr"}, key : CallerKeys, val : {""}, exp : {0}]
    \cup [op : {"LPush"}, key : CallerKeys, val : {"item"}, exp : {0}]

\* The store's reply to one command and the key space after it.
Apply(st, c) ==
    LET e == st[c.key]
        reply(s, v, err) == [store |-> s, val |-> v, err |-> err]
    IN  CASE c.op = "Set" ->
               reply([st EXCEPT ![c.key] = StringEntry(c.val, c.exp)], StrVal("OK"), Nil)
          [] c.op = "SetNX" ->
               IF e.type = "none"
               THEN reply([st EXCEPT ![c.key] = StringEntry(c.val, c.exp)], BoolVal(TRUE), Nil)
               ELSE reply(st, BoolVal(FALSE), Nil)
          [] c.op = "Get" ->
               IF e.type = "none" THEN reply(st, Zero, RedisNil)
               ELSE IF e.type = "string" THEN reply(st, StrVal(e.str), Nil)
               ELSE reply(st, Zero, WrongType)
          [] c.op = "Incr" ->
               IF e.type = "none"
               THEN reply([st EXCEPT ![c.key] = StringEntry(Itoa(1), 0)], IntVal(1), Nil)
               ELSE IF e.type # "string" THEN reply(st, Zero, WrongType)
               ELSE IF ~IsInt(e.str) THEN reply(st, Zero, NotInteger)
               ELSE reply([st EXCEPT ![c.key] = StringEntry(Itoa(Atoi(e.str) + 1), e.ttl)],
                          IntVal(Atoi(e.str) + 1), Nil)
          [] c.op = "LPush" ->
               IF e.type = "none"
               THEN reply([st EXCEPT ![c.key] = ListEntry(<<c.val>>, 0)], IntVal(1), Nil)
               ELSE IF e.type # "list" THEN reply(st, Zero, WrongType)
               ELSE reply([st EXCEPT ![c.key] = ListEntry(<<c.val>> \o e.list, e.ttl)],
                          IntVal(Len(e.list) + 1), Nil)

\* The store processing a queue in order: the key space after it and one
\* reply per command, each carrying the number of the command it answers.
RECURSIVE RunQueue(_, _)
RunQueue(st, queue) ==
    IF queue = <<>> THEN [store |-> st, replies |-> <<>>]
    ELSE LET r == Apply(st, Head(queue))
             rest == RunQueue(r.store, Tail(queue))
         IN  [store |-> rest.store,
              replies |-> <<[h |-> Head(queue).h, val |-> r.val, err |-> r.err]>>
                          \o rest.replies]

\* The error of the first failed command, if any.
RECURSIVE cmdsFirstErr(_)
cmdsFirstErr(replies) ==
    IF replies = <<>> THEN Nil
    ELSE IF Head(replies).err # Nil THEN Head(replies).err
    ELSE cmdsFirstErr(Tail(replies))

HandlesOf(queue) == {queue[i].h : i \in 1 .. Len(queue)}

\* The history after the commands of a queue met their fate.
Settle(hist, queue, fate) ==
    [h \in 1 .. Len(hist) |->
        IF h \in HandlesOf(queue) THEN [hist[h] EXCEPT !.fate = fate] ELSE hist[h]]

SentKeys == {issued[h].key : h \in {i \in 1 .. Len(issued) : issued[i].fate = "sent"}}

\* p.pipe.Exec: the driver sends a non-empty queue in one round trip and
\* returns the commands with the error of the first failed one; a round
\* trip that cannot be made fails every command with the transport error.
pipeExec(st, queue, up) ==
    IF queue = <<>>
    THEN [store |-> st, replies |-> <<>>, err |-> Nil, fate |-> "queued",
          completed |-> TRUE]
    ELSE IF ~up
    THEN [store |-> st,
          replies |-> [i \in 1 .. Len(queue) |->
                          [h |-> queue[i].h, val |-> Zero, err |-> ConnRefused]],
          err |-> ConnRefused, fate |-> "lost", completed |-> FALSE]
    ELSE LET r == RunQueue(st, queue)
         IN  [store |-> r.store, replies |-> r.replies,
              err |-> cmdsFirstErr(r.replies), fate |-> "sent", completed |-> TRUE]

-----------------------------------------------------------------------------
(* The batch: pipeliner.go *)

NoRet ==
    [op |-> "none", keys |-> <<>>, n |-> 0, results |-> <<>>, resultsNil |-> TRUE,
     replies |-> <<>>, completed |-> FALSE, err |-> Nil]

Returned(op, err) == [NoRet EXCEPT !.op = op, !.err = err]

\* The command the wrapper queues for the call c, numbered h.
Queued(c, h) ==
    [op |-> c.op,
     key |-> GetKeyWithPrefix(config, c.key),
     val |-> c.val,
     exp |-> IF c.op \in {"Set", "SetNX"} THEN GetTTL(config, c.exp) ELSE 0,
     h |-> h]

\* A variant of Enqueue that runs the command against the store at once.
EnqueueEager(c) ==
    /\ Len(issued) < MaxCmds
    /\ LET h == Len(issued) + 1
       IN  /\ cmds' = Append(cmds, Queued(c, h))
           /\ store' = Apply(store, Queued(c, h)).store
           /\ issued' = Append(issued, [key |-> Queued(c, h).key, fate |-> "sent"])
           /\ handles' = Append(handles, [val |-> Zero, err |-> Nil])
           /\ ret' = [Returned(c.op, Nil) EXCEPT !.n = h]
    /\ UNCHANGED <<config, phase, pol>>

\* Get, Set, SetNX, Incr and LPush of SinglePipeliner and
\* ClusterPipeliner: the key goes through GetKeyWithPrefix, the expiration
\* of Set and SetNX through GetTTL, the command is queued on the driver
\* pipeline, and the handle returned is a copy of the queued command's
\* val and err as they are at that moment: zero and nil.
Enqueue(c) ==
    /\ Len(issued) < MaxCmds
    /\ LET h == Len(issued) + 1
       IN  /\ cmds' = Append(cmds, Queued(c, h))
           /\ issued' = Append(issued, [key |-> Queued(c, h).key, fate |-> "queued"])
           /\ handles' = Append(handles, [val |-> Zero, err |-> Nil])
           /\ ret' = [Returned(c.op, Nil) EXCEPT !.n = h]
    /\ UNCHANGED <<config, store, phase, pol>>

\* A variant of ExecReturn that hands the commands back along with the
\* error.
ExecReturnWithResults(r, n) ==
    [NoRet EXCEPT !.op = "Exec", !.n = n, !.err = r.err, !.results = r.replies,
                  !.resultsNil = FALSE,
                  !.replies = r.replies, !.completed = r.completed]

\* What Exec hands back for the driver's (cmds, err): nil and the error,
\* or a list holding every command of cmds in order. n, replies and
\* completed record the call: the size of the queue, what the store
\* replied and whether the round trip was made.
ExecReturn(r, n) ==
    IF r.err # Nil
    THEN [NoRet EXCEPT !.op = "Exec", !.n = n, !.err = r.err,
                       !.replies = r.replies, !.completed = r.completed]
    ELSE [NoRet EXCEPT !.op = "Exec", !.n = n, !.results = r.replies,
                       !.resultsNil = FALSE,
                       !.replies = r.replies, !.completed = r.completed]

\* A variant of Exec that writes each reply into the handle of its command.
ExecResolves ==
    /\ \E up \in BOOLEAN :
          LET r == pipeExec(store, cmds, up)
          IN  /\ store' = r.store
              /\ issued' = Settle(issued, cmds, r.fate)
              /\ ret' = ExecReturn(r, Len(cmds))
              /\ handles' = [h \in 1 .. Len(handles) |->
                                IF \E i \in 1 .. Len(r.replies) : r.replies[i].h = h
                                THEN LET i == CHOOSE j \in 1 .. Len(r.replies) :
                                                  r.replies[j].h = h
                                     IN  [val |-> r.replies[i].val, err |-> r.replies[i].err]
                                ELSE handles[h]]
    /\ cmds' = <<>>
    /\ phase' = IF phase = "Open" THEN "Executed" ELSE phase
    /\ UNCHANGED <<config, pol>>

\* A variant of Exec that leaves the commands on the queue.
ExecKeepsQueue ==
    /\ \E up \in BOOLEAN :
          LET r == pipeExec(store, cmds, up)
          IN  /\ store' = r.store
              /\ issued' = Settle(issued, cmds, r.fate)
              /\ ret' = ExecReturn(r, Len(cmds))
    /\ cmds' = cmds
    /\ phase' = IF phase = "Open" THEN "Executed" ELSE phase
    /\ UNCHANGED <<config, handles, pol>>

\* Exec of SinglePipeliner and ClusterPipeliner: the driver's Exec takes
\* the queue; the handles are not touched.
Exec ==
    /\ \E up \in BOOLEAN :
          LET r == pipeExec(store, cmds, up)
          IN  /\ store' = r.store
              /\ issued' = Settle(issued, cmds, r.fate)
              /\ ret' = ExecReturn(r, Len(cmds))
    /\ cmds' = <<>>
    /\ phase' = IF phase = "Open" THEN "Executed" ELSE phase
    /\ UNCHANGED <<config, handles, pol>>

\* A variant of Discard that flushes the queue to the store before
\* emptying it.
DiscardFlushes ==
    /\ store' = RunQueue(store, cmds).store
    /\ cmds' = <<>>
    /\ ret' = Returned("Discard", Nil)
    /\ issued' = Settle(issued, cmds, "sent")
    /\ phase' = IF phase = "Open" THEN "Discarded" ELSE phase
    /\ UNCHANGED <<config, handles, pol>>

\* Discard: p.pipe.Discard() empties the driver's queue.
Discard ==
    /\ cmds' = <<>>
    /\ ret' = Returned("Discard", Nil)
    /\ issued' = Settle(issued, cmds, "discarded")
    /\ phase' = IF phase = "Open" THEN "Discarded" ELSE phase
    /\ UNCHANGED <<config, store, handles, pol>>

\* A variant of Close that also drops the queued commands.
CloseDiscards ==
    /\ ret' = Returned("Close", Nil)
    /\ cmds' = <<>>
    /\ issued' = Settle(issued, cmds, "discarded")
    /\ UNCHANGED <<config, store, handles, phase, pol>>

\* Close: nothing to release.
Close ==
    /\ ret' = Returned("Close", Nil)
    /\ UNCHANGED <<config, store, cmds, handles, issued, phase, pol>>

-----------------------------------------------------------------------------
(* The client: single_client.go *)

RECURSIVE CountExisting(_, _)
CountExisting(st, keys) ==
    IF keys = <<>> THEN 0
    ELSE (IF st[Head(keys)].type = "none" THEN 0 ELSE 1) + CountExisting(st, Tail(keys))

KeyLists == {<<k>> : k \in CallerKeys} \cup {<<(<<"a">>), (<<"b">>)>>}

\* SingleClient.Exists: every key prefixed, the store's count returned.
ClientExists ==
    /\ \E keys \in KeyLists :
          LET prefixedKeys == [i \in 1 .. Len(keys) |-> GetKeyWithPrefix(config, keys[i])]
          IN  ret' = [Returned("ClientExists", Nil) EXCEPT
                         !.keys = prefixedKeys,
                         !.n = CountExisting(store, prefixedKeys)]
    /\ UNCHANGED <<config, store, cmds, handles, issued, phase, pol>>

-----------------------------------------------------------------------------
(* Specifications *)

\* A client on an empty key space with a fresh batch from Pipeline() or
\* TxPipeline(): an empty driver queue and no handles.
Init ==
    /\ config \in MainConfigs
    /\ store = [k \in StoreKeys(config) |-> Absent]
    /\ cmds = <<>>
    /\ handles = <<>>
    /\ issued = <<>>
    /\ phase = "Open"
    /\ ret = NoRet
    /\ pol = NoCall

Next ==
    \/ \E c \in CallerCommands : Enqueue(c)
    \/ Exec
    \/ Discard
    \/ Close
    \/ ClientExists

Spec == Init /\ [][Next]_vars

\* The policy functions applied to bounded inputs under every bounded
\* configuration.
InitPolicy ==
    /\ config \in PolicyConfigs
    /\ store = [k \in StoreKeys(config) |-> Absent]
    /\ cmds = <<>>
    /\ handles = <<>>
    /\ issued = <<>>
    /\ phase = "Open"
    /\ ret = NoRet
    /\ pol = NoCall

NextPolicy ==
    \/ CallGetKeyWithPrefix
    \/ CallGetTTL

SpecPolicy == InitPolicy /\ [][NextPolicy]_vars

-----------------------------------------------------------------------------
(* Deployment configuration: config.go *)

ErrInvalidMode == "invalid redis mode"
ErrMissingSingleConfig == "missing single mode config"
ErrMissingClusterConfig == "missing cluster mode config"
ErrMissingSentinelConfig == "missing sentinel mode config"
ErrMissingAddr == "missing server address"
ErrMissingAddrs == "missing server addresses"
ErrMissingMasterName == "missing master name"

ModeSingle == "single"
ModeCluster == "cluster"
ModeSentinel == "sentinel"

\* The modes a caller can write: the three known ones, the zero value and
\* a name the package does not know.
Modes == {"", ModeSingle, ModeCluster, ModeSentinel, "proxy"}

Hosts == {"h1:6379"}

\* The address lists of at most n hosts.
RECURSIVE AddrLists(_)
AddrLists(n) ==
    IF n = 0 THEN {<<>>}
    ELSE AddrLists(n - 1) \cup
         {Append(l, h) : l \in {x \in AddrLists(n - 1) : Len(x) = n - 1}, h \in Hosts}

\* A nil sub-configuration pointer is the record with isNil set; its other
\* fields are never read.
NoSingle == [isNil |-> TRUE, Addr |-> "", DB |-> 0]
NoCluster == [isNil |-> TRUE, Addrs |-> <<>>]
NoSentinel == [isNil |-> TRUE, Addrs |-> <<>>, MasterName |-> ""]
NoTLS == [isNil |-> TRUE, Enabled |-> FALSE, hasKeyPair |-> FALSE]

SingleConfigs == {NoSingle} \cup [isNil : {FALSE}, Addr : {"", "h1:6379"}, DB : {-1, 0}]
ClusterConfigs == {NoCluster} \cup [isNil : {FALSE}, Addrs : AddrLists(MaxAddrs)]
SentinelConfigs ==
    {NoSentinel} \cup
    [isNil : {FALSE}, Addrs : AddrLists(MaxAddrs), MasterName : {"", "mymaster"}]

\* hasKeyPair: CertFile and KeyFile are both non-empty.
TLSConfigs == {NoTLS} \cup [isNil : {FALSE}, Enabled : BOOLEAN, hasKeyPair : BOOLEAN]

DeployConfigs ==
    [Mode : Modes, Single : SingleConfigs, Cluster : ClusterConfigs,
     Sentinel : SentinelConfigs, TLS : TLSConfigs]

\* The configurations Validate is called on: it never reads the common
\* part, so that is left at its zero value.
ValidateInputs ==
    [Mode : Modes, Single : SingleConfigs, Cluster : ClusterConfigs,
     Sentinel : SentinelConfigs, TLS : {NoTLS}]

\* A variant of Validate that does not look at the sentinel master name.
ValidateNoMasterName(c) ==
    IF c.Mode = "" THEN ErrInvalidMode
    ELSE CASE c.Mode = ModeSingle ->
                IF c.Single.isNil THEN ErrMissingSingleConfig
                ELSE IF c.Single.Addr = "" THEN ErrMissingAddr
                ELSE Nil
           [] c.Mode = ModeCluster ->
                IF c.Cluster.isNil THEN ErrMissingClusterConfig
                ELSE IF Len(c.Cluster.Addrs) = 0 THEN ErrMissingAddrs
                ELSE Nil
           [] c.Mode = ModeSentinel ->
                IF c.Sentinel.isNil THEN ErrMissingSentinelConfig
                ELSE IF Len(c.Sentinel.Addrs) = 0 THEN ErrMissingAddrs
                ELSE Nil
           [] OTHER -> ErrInvalidMode

Validate(c) ==
    IF c.Mode = "" THEN ErrInvalidMode
    ELSE CASE c.Mode = ModeSingle ->
                IF c.Single.isNil THEN ErrMissingSingleConfig
                ELSE IF c.Single.Addr = "" THEN ErrMissingAddr
                ELSE Nil
           [] c.Mode = ModeCluster ->
                IF c.Cluster.isNil THEN ErrMissingClusterConfig
                ELSE IF Len(c.Cluster.Addrs) = 0 THEN ErrMissingAddrs
                ELSE Nil
           [] c.Mode = ModeSentinel ->
                IF c.Sentinel.isNil THEN ErrMissingSentinelConfig
                ELSE IF Len(c.Sentinel.Addrs) = 0 THEN ErrMissingAddrs
                ELSE IF c.Sentinel.MasterName = "" THEN ErrMissingMasterName
                ELSE Nil
           [] OTHER -> ErrInvalidMode

\* What a call on a configuration or on the factory returned; client names
\* the concrete client or is "nil"; tls, probe and driver are history of
\* the call: how the TLS build and the Ping went, and the state the driver
\* connection was left in.
FactoryRet(op, arg) ==
    [op |-> op, arg |-> arg, client |-> "nil", err |-> Nil, cause |-> Nil,
     tls |-> "none", probe |-> "none", driver |-> "none"]

\* Config.Validate called on any configuration a caller can write.
CallValidate ==
    /\ \E c \in ValidateInputs :
          ret' = [FactoryRet("Validate", c) EXCEPT !.err = Validate(c)]
    /\ UNCHANGED <<config, store, cmds, handles, issued, phase, pol>>

-----------------------------------------------------------------------------
(* The factory: factory.go *)

\* buildTLSConfig fails only when a key pair is named and does not load.
buildTLSConfig(tls, certLoads) ==
    IF tls.hasKeyPair /\ ~certLoads THEN "failed to load certificate" ELSE Nil

TLSWanted(cfg) == ~cfg.TLS.isNil /\ cfg.TLS.Enabled

TLSFailed(tlsErr) ==
    [client |-> "nil", err |-> "failed to build TLS config", cause |-> tlsErr,
     tls |-> "failed", probe |-> "none", driver |-> "none"]

\* Ping failed: the driver is closed and the error wraps the driver's.
ProbeFailed(cfg, msg) ==
    [client |-> "nil", err |-> msg, cause |-> ConnRefused,
     tls |-> IF TLSWanted(cfg) THEN "ok" ELSE "none",
     probe |-> "failed", driver |-> "closed"]

Connected(cfg, client) ==
    [client |-> client, err |-> Nil, cause |-> Nil,
     tls |-> IF TLSWanted(cfg) THEN "ok" ELSE "none",
     probe |-> "ok", driver |-> "open"]

\* f.config.Single, Cluster or Sentinel is nil where the options are built
\* from its fields: the call panics and returns nothing.
Panicked ==
    [client |-> "nil", err |-> "panic: nil pointer dereference", cause |-> Nil,
     tls |-> "none", probe |-> "none", driver |-> "none"]

createSingleClient(cfg, certLoads, pong) ==
    LET tlsErr == IF TLSWanted(cfg) THEN buildTLSConfig(cfg.TLS, certLoads) ELSE Nil
    IN  IF cfg.Single.isNil THEN Panicked
        ELSE IF tlsErr # Nil THEN TLSFailed(tlsErr)
        ELSE IF ~pong THEN ProbeFailed(cfg, "failed to connect to redis")
        ELSE Connected(cfg, "SingleClient")

createClusterClient(cfg, certLoads, pong) ==
    LET tlsErr == IF TLSWanted(cfg) THEN buildTLSConfig(cfg.TLS, certLoads) ELSE Nil
    IN  IF cfg.Cluster.isNil THEN Panicked
        ELSE IF tlsErr # Nil THEN TLSFailed(tlsErr)
        ELSE IF ~pong THEN ProbeFailed(cfg, "failed to connect to redis cluster")
        ELSE Connected(cfg, "ClusterClient")

\* A variant of createSentinelClient that returns on a failed Ping without
\* closing the driver.
createSentinelClientLeaky(cfg, certLoads, pong) ==
    LET tlsErr == IF TLSWanted(cfg) THEN buildTLSConfig(cfg.TLS, certLoads) ELSE Nil
    IN  IF cfg.Sentinel.isNil THEN Panicked
        ELSE IF tlsErr # Nil THEN TLSFailed(tlsErr)
        ELSE IF ~pong
             THEN [ProbeFailed(cfg, "failed to connect to redis sentinel")
                      EXCEPT !.driver = "open"]
        ELSE Connected(cfg, "SentinelClient")

createSentinelClient(cfg, certLoads, pong) ==
    LET tlsErr == IF TLSWanted(cfg) THEN buildTLSConfig(cfg.TLS, certLoads) ELSE Nil
    IN  IF cfg.Sentinel.isNil THEN Panicked
        ELSE IF tlsErr # Nil THEN TLSFailed(tlsErr)
        ELSE IF ~pong THEN ProbeFailed(cfg, "failed to connect to redis sentinel")
        ELSE Connected(cfg, "SentinelClient")

\* Factory.CreateClient on the factory's configuration; whether the key
\* pair loads and whether the store answers the Ping are the environment's.
CreateClient ==
    /\ \E certLoads \in BOOLEAN : \E pong \in BOOLEAN :
          LET r == CASE config.Mode = ModeSingle ->
                          createSingleClient(config, certLoads, pong)
                     [] config.Mode = ModeCluster ->
                          createClusterClient(config, certLoads, pong)
                     [] config.Mode = ModeSentinel ->
                          createSentinelClient(config, certLoads, pong)
                     [] OTHER ->
                          [client |-> "nil", err |-> "unsupported mode", cause |-> Nil,
                           tls |-> "none", probe |-> "none", driver |-> "none"]
          IN  ret' = [op |-> "CreateClient", arg |-> config, client |-> r.client,
                      err |-> r.err, cause |-> r.cause, tls |-> r.tls,
                      probe |-> r.probe, driver |-> r.driver]
    /\ UNCHANGED <<config, store, cmds, handles, issued, phase, pol>>

\* The configurations a factory is built from here: accepted by Validate,
\* with only the selected sub-configuration set.
FactoryConfigs ==
    {c \in DeployConfigs :
        /\ Validate(c) = Nil
        /\ c.Mode # ModeSingle => c.Single = NoSingle
        /\ c.Mode # ModeCluster => c.Cluster = NoCluster
        /\ c.Mode # ModeSentinel => c.Sentinel = NoSentinel}

\* A factory returned by NewFactory, no client created yet.
InitFactory ==
    /\ config \in FactoryConfigs
    /\ store = <<>>
    /\ cmds = <<>>
    /\ handles = <<>>
    /\ issued = <<>>
    /\ phase = "Open"
    /\ ret = NoRet
    /\ pol = NoCall

NextFactory ==
    \/ CallValidate
    \/ CreateClient

SpecFactory == InitFactory /\ [][NextFactory]_vars

-----------------------------------------------------------------------------
(* Clients with different prefixes on one store: Set, Keys and Scan of     *)
(* single_client.go                                                        *)

SharedPrefixes == {<<"p">>, <<"p", "a">>, <<"a">>}

SharedConfigs == [KeyPrefix : SharedPrefixes \cup {<<>>}, DefaultTTL : {2}]

\* The keys the callers name; the empty key is one of them.
SharedKeys == {<<>>, <<"a">>, <<"p">>}

KeySpace == {pre \o k : pre \in SharedPrefixes \cup {<<>>}, k \in SharedKeys}

\* The glob patterns the callers list with.
Patterns == {<<"*">>, <<>>, <<"a">>, <<"a", "*">>}

\* An entry with its history: the prefixes of the clients that wrote it.
Owned(e, by) ==
    [type |-> e.type, str |-> e.str, list |-> e.list, ttl |-> e.ttl, by |-> by]

Present(st) == {k \in DOMAIN st : st[k].type # "none"}

\* The store's glob match: "*" stands for any run of characters.
RECURSIVE Match(_, _)
Match(pat, s) ==
    IF pat = <<>> THEN s = <<>>
    ELSE IF Head(pat) = "*"
    THEN Match(Tail(pat), s) \/ (s # <<>> /\ Match(pat, Tail(s)))
    ELSE s # <<>> /\ Head(s) = Head(pat) /\ Match(Tail(pat), Tail(s))

\* The keys of a reply, in the order the store lists them.
RECURSIVE SeqOf(_)
SeqOf(S) ==
    IF S = {} THEN <<>>
    ELSE LET k == CHOOSE x \in S : TRUE IN <<k>> \o SeqOf(S \ {k})

\* A variant of RemovePrefix that strips every key at least as long as the
\* prefix.
RemovePrefixInclusive(cfg, keys) ==
    IF cfg.KeyPrefix # <<>>
    THEN LET prefixLen == Len(cfg.KeyPrefix)
         IN  [i \in 1 .. Len(keys) |->
                 IF Len(keys[i]) >= prefixLen
                 THEN SubSeq(keys[i], prefixLen + 1, Len(keys[i]))
                 ELSE keys[i]]
    ELSE keys

\* The loop of Keys and Scan over the reply: key[prefixLen:] for every key
\* longer than the prefix.
RemovePrefix(cfg, keys) ==
    IF cfg.KeyPrefix # <<>>
    THEN LET prefixLen == Len(cfg.KeyPrefix)
         IN  [i \in 1 .. Len(keys) |->
                 IF Len(keys[i]) > prefixLen
                 THEN SubSeq(keys[i], prefixLen + 1, Len(keys[i]))
                 ELSE keys[i]]
    ELSE keys

\* What a call of a client on the shared store returned: by is the prefix
\* of the calling client, arg the key or pattern it was given, sent the
\* key or pattern handed to the store, found the store keys of the reply.
SharedRet(op, by, arg, sent) ==
    [op |-> op, by |-> by, arg |-> arg, sent |-> sent, found |-> <<>>,
     keys |-> <<>>, cursor |-> 0, err |-> Nil]

\* The other clients on the store: a non-empty prefix that is not ours.
Peers ==
    {c \in SharedConfigs : c.KeyPrefix # <<>> /\ c.KeyPrefix # config.KeyPrefix}

\* SingleClient.Set(k, "v1", 0) by the client configured with cfg.
SetBy(cfg, k) ==
    LET key == GetKeyWithPrefix(cfg, k)
    IN  /\ Cardinality(Present(store) \cup {key}) <= MaxKeys
        /\ store' = [store EXCEPT ![key] =
                        Owned(StringEntry("v1", GetTTL(cfg, 0)),
                              store[key].by \cup {cfg.KeyPrefix})]
        /\ ret' = SharedRet("Set", cfg.KeyPrefix, k, key)
        /\ UNCHANGED <<config, cmds, handles, issued, phase, pol>>

\* A variant of ClientKeys that hands the caller's pattern to the store as
\* it is.
ClientKeysUnprefixed ==
    /\ \E pattern \in Patterns : \E up \in BOOLEAN :
          LET found == SeqOf({k \in Present(store) : Match(pattern, k)})
              r == SharedRet("Keys", config.KeyPrefix, pattern, pattern)
          IN  ret' = IF up
                     THEN [r EXCEPT !.found = found,
                                    !.keys = RemovePrefix(config, found)]
                     ELSE [r EXCEPT !.err = ConnRefused]
    /\ UNCHANGED <<config, store, cmds, handles, issued, phase, pol>>

\* SingleClient.Keys.
ClientKeys ==
    /\ \E pattern \in Patterns : \E up \in BOOLEAN :
          LET sent == GetKeyWithPrefix(config, pattern)
              found == SeqOf({k \in Present(store) : Match(sent, k)})
              r == SharedRet("Keys", config.KeyPrefix, pattern, sent)
          IN  ret' = IF up
                     THEN [r EXCEPT !.found = found,
                                    !.keys = RemovePrefix(config, found)]
                     ELSE [r EXCEPT !.err = ConnRefused]
    /\ UNCHANGED <<config, store, cmds, handles, issued, phase, pol>>

\* SingleClient.Scan from cursor 0: the store replies with some of the
\* matching keys and a cursor that is 0 when none is left.
ClientScan ==
    /\ \E match \in Patterns : \E up \in BOOLEAN :
          LET sent == GetKeyWithPrefix(config, match)
              matching == {k \in Present(store) : Match(sent, k)}
              r == SharedRet("Scan", config.KeyPrefix, match, sent)
          IN  \E page \in SUBSET matching :
                 ret' = IF up
                        THEN [r EXCEPT !.found = SeqOf(page),
                                       !.keys = RemovePrefix(config, SeqOf(page)),
                                       !.cursor = IF page = matching THEN 0 ELSE 1]
                        ELSE [r EXCEPT !.err = ConnRefused]
    /\ UNCHANGED <<config, store, cmds, handles, issued, phase, pol>>

\* One client of each configuration on an empty shared store.
InitShared ==
    /\ config \in SharedConfigs
    /\ store = [k \in KeySpace |-> Owned(Absent, {})]
    /\ cmds = <<>>
    /\ handles = <<>>
    /\ issued = <<>>
    /\ phase = "Open"
    /\ ret = NoRet
    /\ pol = NoCall

NextShared ==
    \/ \E k \in SharedKeys : SetBy(config, k)
    \/ \E cfg \in Peers : \E k \in SharedKeys : SetBy(cfg, k)
    \/ ClientKeys
    \/ ClientScan

SpecShared == InitShared /\ [][NextShared]_vars

-----------------------------------------------------------------------------
(* What the client hands to the driver: the multi-key commands, MSet and   *)
(* the script commands of single_client.go                                 *)

\* The lists of at most n elements of S.
RECURSIVE ListsUpTo(_, _)
ListsUpTo(S, n) ==
    IF n = 0 THEN {<<>>}
    ELSE ListsUpTo(S, n - 1) \cup
         {Append(l, x) : l \in {y \in ListsUpTo(S, n - 1) : Len(y) = n - 1}, x \in S}

\* An interface{} argument: a string or nil.
Str(s) == [isNil |-> FALSE, s |-> s]
NilArg == [isNil |-> TRUE, s |-> <<>>]

ArgKeys == {<<"a">>, <<"p">>}
ArgKeyLists == ListsUpTo(ArgKeys, MaxArgs)
PairLists == ListsUpTo({Str(<<"a">>), Str(<<"p">>)}, MaxArgs)
ScriptArgs == {<<>>, <<Str(<<"a">>)>>}

MultiKeyOps == {"Del", "Exists", "MGet", "SInter", "SUnion", "SDiff"}

\* The loop of the multi-key commands and of Eval/EvalSha.
prefixedKeys(cfg, keys) ==
    [i \in 1 .. Len(keys) |-> GetKeyWithPrefix(cfg, keys[i])]

\* The loop of MSet: make([]interface{}, len(pairs)) is all nil, and a key
\* and its value are filled in only where the key has a value after it.
prefixedPairs(cfg, pairs) ==
    [j \in 1 .. Len(pairs) |->
        IF j % 2 = 1
        THEN IF j + 1 <= Len(pairs)
             THEN Str(GetKeyWithPrefix(cfg, pairs[j].s))
             ELSE NilArg
        ELSE pairs[j]]

\* A call and the command it handed to the driver.
ArgsRet(op, keys, args, sentKeys, sentArgs) ==
    [op |-> op, keys |-> keys, args |-> args, sentKeys |-> sentKeys,
     sentArgs |-> sentArgs, err |-> Nil]

\* Del, Exists, MGet, SInter, SUnion, SDiff.
ClientMultiKey(op) ==
    /\ \E keys \in ArgKeyLists :
          ret' = ArgsRet(op, keys, <<>>, prefixedKeys(config, keys), <<>>)
    /\ UNCHANGED <<config, store, cmds, handles, issued, phase, pol>>

ClientMSet ==
    /\ \E pairs \in PairLists :
          ret' = ArgsRet("MSet", <<>>, pairs, <<>>, prefixedPairs(config, pairs))
    /\ UNCHANGED <<config, store, cmds, handles, issued, phase, pol>>

\* Eval and EvalSha.
ClientEval(op) ==
    /\ \E keys \in ArgKeyLists : \E args \in ScriptArgs :
          ret' = ArgsRet(op, keys, args, prefixedKeys(config, keys), args)
    /\ UNCHANGED <<config, store, cmds, handles, issued, phase, pol>>

\* ScriptExists, ScriptLoad, ScriptFlush, ScriptKill.
ClientScript(op) ==
    /\ \E args \in (IF op \in {"ScriptFlush", "ScriptKill"} THEN {<<>>} ELSE ScriptArgs) :
          ret' = ArgsRet(op, <<>>, args, <<>>, args)
    /\ UNCHANGED <<config, store, cmds, handles, issued, phase, pol>>

\* A client of each bounded configuration; the store plays no part.
InitArgs ==
    /\ config \in PolicyConfigs
    /\ store = <<>>
    /\ cmds = <<>>
    /\ handles = <<>>
    /\ issued = <<>>
    /\ phase = "Open"
    /\ ret = NoRet
    /\ pol = NoCall

NextArgs ==
    \/ \E op \in MultiKeyOps : ClientMultiKey(op)
    \/ ClientMSet
    \/ \E op \in {"Eval", "EvalSha"} : ClientEval(op)
    \/ \E op \in {"ScriptExists", "ScriptLoad", "ScriptFlush", "ScriptKill"} :
          ClientScript(op)

SpecArgs == InitArgs /\ [][NextArgs]_vars

-----------------------------------------------------------------------------
(* Set and SetNX on the client (single_client.go) and in a batch           *)
(* (pipeliner.go)                                                          *)

\* The expirations a caller asks for: none, and one that is positive and
\* is not the default.
SetExpirations == {0, 1}

SetCommands ==
    [op : {"Set", "SetNX"}, key : {<<"a">>}, val : Values, exp : SetExpirations]

\* What Set or SetNX of the client returned, with the arguments it was given.
SetRet(op, key, val, exp, ok, err) ==
    [op |-> op, key |-> key, val |-> val, exp |-> exp, ok |-> ok, err |-> err]

\* The command c.client.Set / c.client.SetNX is called with.
ClientCommand(op, key, val, exp) ==
    [op |-> op, key |-> GetKeyWithPrefix(config, key), val |-> val,
     exp |-> GetTTL(config, exp), h |-> 0]

\* A variant of ClientSet that hands the requested expiration to the store
\* as it is.
ClientSetRequestedTTL ==
    /\ \E key \in CallerKeys : \E val \in Values : \E exp \in SetExpirations :
       \E up \in BOOLEAN :
          LET c == [ClientCommand("Set", key, val, exp) EXCEPT !.exp = exp]
              r == Apply(store, c)
          IN  /\ store' = IF up THEN r.store ELSE store
              /\ ret' = SetRet("ClientSet", key, val, exp, up,
                               IF up THEN r.err ELSE ConnRefused)
    /\ UNCHANGED <<config, cmds, handles, issued, phase, pol>>

\* SingleClient.Set.
ClientSet ==
    /\ \E key \in CallerKeys : \E val \in Values : \E exp \in SetExpirations :
       \E up \in BOOLEAN :
          LET r == Apply(store, ClientCommand("Set", key, val, exp))
          IN  /\ store' = IF up THEN r.store ELSE store
              /\ ret' = SetRet("ClientSet", key, val, exp, up,
                               IF up THEN r.err ELSE ConnRefused)
    /\ UNCHANGED <<config, cmds, handles, issued, phase, pol>>

\* SingleClient.SetNX.
ClientSetNX ==
    /\ \E key \in CallerKeys : \E val \in Values : \E exp \in SetExpirations :
       \E up \in BOOLEAN :
          LET r == Apply(store, ClientCommand("SetNX", key, val, exp))
          IN  /\ store' = IF up THEN r.store ELSE store
              /\ ret' = SetRet("ClientSetNX", key, val, exp, up /\ r.val.b,
                               IF up THEN r.err ELSE ConnRefused)
    /\ UNCHANGED <<config, cmds, handles, issued, phase, pol>>

NextSet ==
    \/ \E c \in SetCommands : Enqueue(c)
    \/ Exec
    \/ ClientSet
    \/ ClientSetNX

\* The client and a fresh batch on an empty key space, as in Init.
SpecSet == Init /\ [][NextSet]_vars

-----------------------------------------------------------------------------
(* Reads and writes of the client against the store: single_client.go and  *)
(* the SentinelClient of client.go                                         *)

ErrKeyNotFound == "redis: key not found"
ErrConnectionFailed == "redis: connection failed"
ErrConnectionTimeout == "redis: connection timeout"
ErrPoolExhausted == "redis: connection pool exhausted"
ErrAuthFailed == "redis: authentication failed"

\* errors.Is against the four connection errors; the errors here are not
\* wrapped, so errors.Is is equality.
IsConnectionError(err) ==
    /\ err # Nil
    /\ err \in {ErrConnectionFailed, ErrConnectionTimeout, ErrPoolExhausted, ErrAuthFailed}

\* A hash is kept as the list field, value, field, value, ...; a set as the
\* list of its members.
HashEntry(l, ttl) == [type |-> "hash", str |-> "", list |-> l, ttl |-> ttl]
SetEntry(l, ttl) == [type |-> "set", str |-> "", list |-> l, ttl |-> ttl]

HashFields == {"f1", "f2"}

HasField(l, f) == \E i \in 1 .. Len(l) : i % 2 = 1 /\ l[i] = f
FieldValue(l, f) == l[(CHOOSE i \in 1 .. Len(l) : i % 2 = 1 /\ l[i] = f) + 1]
PutField(l, f, v) ==
    IF HasField(l, f)
    THEN [i \in 1 .. Len(l) |-> IF i > 1 /\ i % 2 = 0 /\ l[i - 1] = f THEN v ELSE l[i]]
    ELSE l \o <<f, v>>

ReadOps == {"Get", "GetSet", "HGet", "LPop", "RPop", "LIndex", "SPop", "SRandMember"}
WriteOps == {"Incr", "HSet", "LPush", "SAdd"}

\* The commands the reads and writes hand to the driver, for a store key.
DriverCommands(key) ==
    [op : {"Get", "LPop", "RPop", "SPop", "SRandMember", "Incr"},
     key : {key}, val : {""}, field : {""}, idx : {0}, exp : {0}]
    \cup [op : {"GetSet"}, key : {key}, val : Values, field : {""}, idx : {0}, exp : {0}]
    \cup [op : {"HGet"}, key : {key}, val : {""}, field : HashFields, idx : {0}, exp : {0}]
    \cup [op : {"HSet"}, key : {key}, val : Values, field : {"f1"}, idx : {0}, exp : {0}]
    \cup [op : {"LIndex"}, key : {key}, val : {""}, field : {""}, idx : {0, MaxSize},
          exp : {0}]
    \cup [op : {"LPush"}, key : {key}, val : {"item"}, field : {""}, idx : {0}, exp : {0}]
    \cup [op : {"SAdd"}, key : {key}, val : {"m"}, field : {""}, idx : {0}, exp : {0}]

\* The store's reply to a command of the client and the key space after
\* it; Set, SetNX, Get, Incr and LPush are as in Apply.
ApplyClient(st, c) ==
    LET e == st[c.key]
        reply(s, v, err) == [store |-> s, val |-> v, err |-> err]
        without == [st EXCEPT ![c.key] = Absent]
    IN  CASE c.op = "GetSet" ->
               IF e.type = "none"
               THEN reply([st EXCEPT ![c.key] = StringEntry(c.val, 0)], Zero, RedisNil)
               ELSE IF e.type = "string"
               THEN reply([st EXCEPT ![c.key] = StringEntry(c.val, 0)], StrVal(e.str), Nil)
               ELSE reply(st, Zero, WrongType)
          [] c.op = "HSet" ->
               IF e.type = "none"
               THEN reply([st EXCEPT ![c.key] = HashEntry(<<c.field, c.val>>, 0)],
                          IntVal(1), Nil)
               ELSE IF e.type # "hash" THEN reply(st, Zero, WrongType)
               ELSE reply([st EXCEPT ![c.key] =
                              HashEntry(PutField(e.list, c.field, c.val), e.ttl)],
                          IntVal(IF HasField(e.list, c.field) THEN 0 ELSE 1), Nil)
          [] c.op = "HGet" ->
               IF e.type = "none" THEN reply(st, Zero, RedisNil)
               ELSE IF e.type # "hash" THEN reply(st, Zero, WrongType)
               ELSE IF HasField(e.list, c.field)
               THEN reply(st, StrVal(FieldValue(e.list, c.field)), Nil)
               ELSE reply(st, Zero, RedisNil)
          [] c.op \in {"LPop", "RPop"} ->
               IF e.type = "none" THEN reply(st, Zero, RedisNil)
               ELSE IF e.type # "list" THEN reply(st, Zero, WrongType)
               ELSE LET n == Len(e.list)
                        rest == IF c.op = "LPop" THEN Tail(e.list)
                                ELSE SubSeq(e.list, 1, n - 1)
                        item == IF c.op = "LPop" THEN Head(e.list) ELSE e.list[n]
                    IN  reply(IF rest = <<>> THEN without
                              ELSE [st EXCEPT ![c.key] = ListEntry(rest, e.ttl)],
                              StrVal(item), Nil)
          [] c.op = "LIndex" ->
               IF e.type = "none" THEN reply(st, Zero, RedisNil)
               ELSE IF e.type # "list" THEN reply(st, Zero, WrongType)
               ELSE IF c.idx < Len(e.list) THEN reply(st, StrVal(e.list[c.idx + 1]), Nil)
               ELSE reply(st, Zero, RedisNil)
          [] c.op = "SAdd" ->
               IF e.type = "none"
               THEN reply([st EXCEPT ![c.key] = SetEntry(<<c.val>>, 0)], IntVal(1), Nil)
               ELSE IF e.type # "set" THEN reply(st, Zero, WrongType)
               ELSE reply(st, IntVal(0), Nil)
          [] c.op = "SPop" ->
               IF e.type = "none" THEN reply(st, Zero, RedisNil)
               ELSE IF e.type # "set" THEN reply(st, Zero, WrongType)
               ELSE reply(without, StrVal(Head(e.list)), Nil)
          [] c.op = "SRandMember" ->
               IF e.type = "none" THEN reply(st, Zero, RedisNil)
               ELSE IF e.type # "set" THEN reply(st, Zero, WrongType)
               ELSE reply(st, StrVal(Head(e.list)), Nil)
          [] OTHER -> Apply(st, c)

\* The command finds no key, or no field or element where it looks.
Missing(st, c) ==
    LET e == st[c.key]
    IN  \/ e.type = "none"
        \/ c.op = "HGet" /\ e.type = "hash" /\ ~HasField(e.list, c.field)
        \/ c.op = "LIndex" /\ e.type = "list" /\ c.idx >= Len(e.list)

\* The driver's result for a command: the store's reply, or the transport
\* error when the store cannot be reached.
DriverResult(st, c, up) ==
    IF up THEN ApplyClient(st, c)
    ELSE [store |-> st, val |-> Zero, err |-> ConnRefused]

\* A variant of SingleRead that reports every failed read as a missing key.
SingleReadAnyError(result) ==
    IF result.err # Nil THEN [val |-> Zero, err |-> ErrKeyNotFound]
    ELSE [val |-> result.val, err |-> result.err]

\* if result.Err() == redis.Nil { return "", ErrKeyNotFound };
\* return result.Result()
SingleRead(result) ==
    IF result.err = RedisNil THEN [val |-> Zero, err |-> ErrKeyNotFound]
    ELSE [val |-> result.val, err |-> result.err]

\* The same two statements in the methods of SentinelClient.
SentinelRead(result) ==
    IF result.err = RedisNil THEN [val |-> Zero, err |-> ErrKeyNotFound]
    ELSE [val |-> result.val, err |-> result.err]

\* What a read or write of the client returned; result is the driver's
\* result it was made from, and missing tells whether the command found
\* nothing where it looked.
ClientRet(op, topology, c, missing, result, out) ==
    [op |-> op, topology |-> topology, key |-> c.key, missing |-> missing,
     result |-> [val |-> result.val, err |-> result.err],
     val |-> out.val, err |-> out.err]

\* Get, GetSet, HGet, LPop, RPop, LIndex, SPop, SRandMember of SingleClient
\* and SentinelClient.
ClientRead(op) ==
    /\ \E key \in CallerKeys : \E topology \in {ModeSingle, ModeSentinel} :
       \E up \in BOOLEAN :
       \E c \in {d \in DriverCommands(GetKeyWithPrefix(config, key)) : d.op = op} :
          LET result == DriverResult(store, c, up)
              out == IF topology = ModeSingle THEN SingleRead(result)
                     ELSE SentinelRead(result)
          IN  /\ store' = result.store
              /\ ret' = ClientRet(op, topology, c, up /\ Missing(store, c), result, out)
    /\ UNCHANGED <<config, cmds, handles, issued, phase, pol>>

\* Incr, HSet, LPush, SAdd of SingleClient: the key is prefixed and the
\* driver's result returned; counters and lists stay within MaxSize.
ClientWrite(op) ==
    /\ \E key \in CallerKeys : \E up \in BOOLEAN :
       \E c \in {d \in DriverCommands(GetKeyWithPrefix(config, key)) : d.op = op} :
          LET e == store[c.key]
              result == DriverResult(store, c, up)
          IN  /\ op = "Incr" /\ e.type = "string" /\ IsInt(e.str) => Atoi(e.str) < MaxSize
              /\ op = "LPush" /\ e.type = "list" => Len(e.list) < MaxSize
              /\ store' = result.store
              /\ ret' = ClientRet(op, ModeSingle, c, FALSE, result, result)
    /\ UNCHANGED <<config, cmds, handles, issued, phase, pol>>

NextClient ==
    \/ ClientSet
    \/ ClientSetNX
    \/ \E op \in ReadOps : ClientRead(op)
    \/ \E op \in WriteOps : ClientWrite(op)

\* A client with a prefix and a positive default TTL on an empty key
\* space, as in Init.
SpecClient == Init /\ [][NextClient]_vars

-----------------------------------------------------------------------------
(* The life of a factory: NewFactory, UpdateConfig, GetConfig and the      *)
(* convenience constructors of factory.go                                  *)

DefaultConfig ==
    [Mode |-> ModeSingle,
     Single |-> [isNil |-> FALSE, Addr |-> "localhost:6379", DB |-> 0],
     Cluster |-> NoCluster, Sentinel |-> NoSentinel, TLS |-> NoTLS]

ZeroConfig ==
    [Mode |-> "", Single |-> NoSingle, Cluster |-> NoCluster,
     Sentinel |-> NoSentinel, TLS |-> NoTLS]

\* A *Config argument: nil, or a pointer to cfg.
NilConfig == [isNil |-> TRUE, cfg |-> ZeroConfig]
ConfigPtr(c) == [isNil |-> FALSE, cfg |-> c]

\* The configurations callers hand to the factory: an empty and an unknown
\* mode, and each mode with every shape of its own sub-configuration.
CallerConfigs ==
    [Mode : {"", "proxy"}, Single : {NoSingle}, Cluster : {NoCluster},
     Sentinel : {NoSentinel}, TLS : {NoTLS}]
    \cup [Mode : {ModeSingle}, Single : SingleConfigs, Cluster : {NoCluster},
          Sentinel : {NoSentinel}, TLS : {NoTLS}]
    \cup [Mode : {ModeCluster}, Single : {NoSingle}, Cluster : ClusterConfigs,
          Sentinel : {NoSentinel}, TLS : {NoTLS}]
    \cup [Mode : {ModeSentinel}, Single : {NoSingle}, Cluster : {NoCluster},
          Sentinel : SentinelConfigs, TLS : {NoTLS}]

ConfigArgs == {NilConfig} \cup {ConfigPtr(c) : c \in CallerConfigs}

\* A variant of newFactory whose error does not wrap the configuration
\* error.
newFactoryOpaqueError(in) ==
    LET c == IF in.isNil THEN DefaultConfig ELSE in.cfg
        e == Validate(c)
    IN  IF e # Nil
        THEN [factory |-> "nil", config |-> c, err |-> "invalid config", cause |-> Nil]
        ELSE [factory |-> "Factory", config |-> c, err |-> Nil, cause |-> Nil]

\* NewFactory: the factory and error it returns; fmt.Errorf with %w keeps
\* the configuration error as the cause of the returned one.
newFactory(in) ==
    LET c == IF in.isNil THEN DefaultConfig ELSE in.cfg
        e == Validate(c)
    IN  IF e # Nil
        THEN [factory |-> "nil", config |-> c, err |-> "invalid config", cause |-> e]
        ELSE [factory |-> "Factory", config |-> c, err |-> Nil, cause |-> Nil]

\* errors.Is(err, target) on an error with at most one wrapped cause.
errorsIs(r, target) == r.err = target \/ r.cause = target

\* Factory.CreateClient on the configuration cfg.
createClient(cfg, certLoads, pong) ==
    CASE cfg.Mode = ModeSingle -> createSingleClient(cfg, certLoads, pong)
      [] cfg.Mode = ModeCluster -> createClusterClient(cfg, certLoads, pong)
      [] cfg.Mode = ModeSentinel -> createSentinelClient(cfg, certLoads, pong)
      [] OTHER -> [client |-> "nil", err |-> "unsupported mode", cause |-> Nil,
                   tls |-> "none", probe |-> "none", driver |-> "none"]

\* What a call of the factory's life returned: arg is the *Config it was
\* given, got the *Config GetConfig returned, and tls, probe and driver
\* the history of the call as in FactoryRet.
LifeRet(op, in) ==
    [op |-> op, arg |-> in, factory |-> "nil", got |-> ZeroConfig, client |-> "nil",
     err |-> Nil, cause |-> Nil, tls |-> "none", probe |-> "none", driver |-> "none"]

\* A variant of NewFactory that builds the factory without validating
\* the configuration.
NewFactoryUnvalidated(in) ==
    /\ config' = IF in.isNil THEN DefaultConfig ELSE in.cfg
    /\ phase' = "Installed"
    /\ ret' = [LifeRet("NewFactory", in) EXCEPT !.factory = "Factory"]
    /\ UNCHANGED <<store, cmds, handles, issued, pol>>

\* NewFactory(in); from a factory it returns on, that one is followed.
\* phase tells whether the configuration the factory holds is as it was
\* when the factory took it, or was written to by the caller since.
NewFactory(in) ==
    /\ LET r == newFactory(in)
       IN  /\ config' = IF r.factory = "nil" THEN config ELSE r.config
           /\ phase' = IF r.factory = "nil" THEN phase ELSE "Installed"
           /\ ret' = [LifeRet("NewFactory", in) EXCEPT
                         !.factory = r.factory, !.err = r.err, !.cause = r.cause]
    /\ UNCHANGED <<store, cmds, handles, issued, pol>>

\* A variant of UpdateConfig that installs a non-nil configuration before
\* it validates it.
UpdateConfigInstallsFirst(in) ==
    /\ LET e == IF in.isNil THEN Nil ELSE Validate(in.cfg)
       IN  /\ config' = IF in.isNil THEN config ELSE in.cfg
           /\ phase' = IF in.isNil THEN phase ELSE "Installed"
           /\ ret' = [LifeRet("UpdateConfig", in) EXCEPT
                         !.err = IF in.isNil THEN "config cannot be nil"
                                 ELSE IF e # Nil THEN "invalid config" ELSE Nil,
                         !.cause = e]
    /\ UNCHANGED <<store, cmds, handles, issued, pol>>

\* Factory.UpdateConfig(in).
UpdateConfig(in) ==
    /\ LET e == IF in.isNil THEN Nil ELSE Validate(in.cfg)
       IN  /\ config' = IF in.isNil \/ e # Nil THEN config ELSE in.cfg
           /\ phase' = IF in.isNil \/ e # Nil THEN phase ELSE "Installed"
           /\ ret' = [LifeRet("UpdateConfig", in) EXCEPT
                         !.err = IF in.isNil THEN "config cannot be nil"
                                 ELSE IF e # Nil THEN "invalid config" ELSE Nil,
                         !.cause = e]
    /\ UNCHANGED <<store, cmds, handles, issued, pol>>

\* Factory.GetConfig.
GetConfig ==
    /\ ret' = [LifeRet("GetConfig", ConfigPtr(config)) EXCEPT !.got = config]
    /\ UNCHANGED <<config, store, cmds, handles, issued, phase, pol>>

\* The factory holds the pointer it was given and GetConfig hands it out:
\* the caller writes to the Config through it, which the factory does not
\* see.
Mutate ==
    /\ \E c \in CallerConfigs \ {config} : config' = c
    /\ phase' = "Mutated"
    /\ ret' = LifeRet("Mutate", ConfigPtr(config))
    /\ UNCHANGED <<store, cmds, handles, issued, pol>>

\* NewFactory(in) followed by CreateClient on the factory, as the
\* convenience constructors do.
construct(op, in, certLoads, pong) ==
    LET f == newFactory(in)
        r == createClient(f.config, certLoads, pong)
    IN  IF f.factory = "nil"
        THEN [LifeRet(op, in) EXCEPT !.err = f.err, !.cause = f.cause]
        ELSE [LifeRet(op, in) EXCEPT
                 !.client = r.client, !.err = r.err, !.cause = r.cause,
                 !.tls = r.tls, !.probe = r.probe, !.driver = r.driver]

NewClientFromConfig ==
    /\ \E in \in ConfigArgs : \E pong \in BOOLEAN :
          ret' = construct("NewClientFromConfig", in, TRUE, pong)
    /\ UNCHANGED <<config, store, cmds, handles, issued, phase, pol>>

NewSingleClient ==
    /\ \E addr \in {"", "h1:6379"} : \E db \in {-1, 0} : \E pong \in BOOLEAN :
          LET c == [DefaultConfig EXCEPT
                       !.Single = [isNil |-> FALSE, Addr |-> addr, DB |-> db]]
          IN  ret' = construct("NewSingleClient", ConfigPtr(c), TRUE, pong)
    /\ UNCHANGED <<config, store, cmds, handles, issued, phase, pol>>

NewClusterClient ==
    /\ \E addrs \in AddrLists(MaxAddrs) : \E pong \in BOOLEAN :
          LET c == [DefaultConfig EXCEPT
                       !.Mode = ModeCluster,
                       !.Cluster = [isNil |-> FALSE, Addrs |-> addrs]]
          IN  ret' = construct("NewClusterClient", ConfigPtr(c), TRUE, pong)
    /\ UNCHANGED <<config, store, cmds, handles, issued, phase, pol>>

NewSentinelClient ==
    /\ \E addrs \in AddrLists(MaxAddrs) : \E masterName \in {"", "mymaster"} :
       \E pong \in BOOLEAN :
          LET c == [DefaultConfig EXCEPT
                       !.Mode = ModeSentinel,
                       !.Sentinel = [isNil |-> FALSE, Addrs |-> addrs,
                                     MasterName |-> masterName]]
          IN  ret' = construct("NewSentinelClient", ConfigPtr(c), TRUE, pong)
    /\ UNCHANGED <<config, store, cmds, handles, issued, phase, pol>>

\* The factory NewFactory(nil) returns.
InitLife ==
    /\ config = DefaultConfig
    /\ store = <<>>
    /\ cmds = <<>>
    /\ handles = <<>>
    /\ issued = <<>>
    /\ phase = "Installed"
    /\ ret = NoRet
    /\ pol = NoCall

NextLife ==
    \/ \E in \in ConfigArgs : NewFactory(in)
    \/ \E in \in ConfigArgs : UpdateConfig(in)
    \/ GetConfig
    \/ Mutate
    \/ CreateClient
    \/ NewClientFromConfig
    \/ NewSingleClient
    \/ NewClusterClient
    \/ NewSentinelClient

SpecLife == InitLife /\ [][NextLife]_vars

-----------------------------------------------------------------------------
(* Two callers of Incr on one client: each call sends INCR on the prefixed *)
(* key, the store serves the commands it receives one at a time, and the   *)
(* reply travels back to the caller                                        *)

Callers == {1, 2}

\* What the counter key holds before the callers start: nothing, an
\* integer, or a string that is no integer.
Counters == {Absent, StringEntry("v1", 0)} \cup {StringEntry(Itoa(n), 0) : n \in 0 .. MaxSize}

IncrCommand(key) == CHOOSE d \in DriverCommands(key) : d.op = "Incr"

Idle == [pc |-> "idle", key |-> <<>>, val |-> Zero, err |-> Nil, served |-> FALSE]

\* c.client.Incr(ctx, c.config.GetKeyWithPrefix(key)): the command leaves
\* for the store.
IncrCall(i) ==
    /\ ret.call[i].pc = "idle"
    /\ \E key \in CallerKeys :
          ret' = [ret EXCEPT !.call[i] =
                     [Idle EXCEPT !.pc = "sent", !.key = GetKeyWithPrefix(config, key)]]
    /\ UNCHANGED <<config, store, cmds, handles, issued, phase, pol>>

\* A variant of IncrServe that adds one to the value the key held when the
\* callers started.
IncrServeStale(i) ==
    /\ ret.call[i].pc = "sent"
    /\ LET key == ret.call[i].key
           r == ApplyClient(ret.initial, IncrCommand(key))
       IN  /\ store' = [store EXCEPT ![key] = r.store[key]]
           /\ ret' = [ret EXCEPT !.call[i].pc = "served", !.call[i].val = r.val,
                                 !.call[i].err = r.err, !.call[i].served = TRUE]
    /\ UNCHANGED <<config, cmds, handles, issued, phase, pol>>

\* The store executes the INCR it received, as one command.
IncrServe(i) ==
    /\ ret.call[i].pc = "sent"
    /\ LET r == ApplyClient(store, IncrCommand(ret.call[i].key))
       IN  /\ store' = r.store
           /\ ret' = [ret EXCEPT !.call[i].pc = "served", !.call[i].val = r.val,
                                 !.call[i].err = r.err, !.call[i].served = TRUE]
    /\ UNCHANGED <<config, cmds, handles, issued, phase, pol>>

\* .Result(): the caller has the store's reply.
IncrReturn(i) ==
    /\ ret.call[i].pc = "served"
    /\ ret' = [ret EXCEPT !.call[i].pc = "returned"]
    /\ UNCHANGED <<config, store, cmds, handles, issued, phase, pol>>

\* The connection fails under the call, before the command reached the
\* store or before its reply reached the caller: .Result() is the
\* transport error.
IncrLost(i) ==
    /\ ret.call[i].pc \in {"sent", "served"}
    /\ ret' = [ret EXCEPT !.call[i].pc = "returned", !.call[i].val = Zero,
                          !.call[i].err = ConnRefused]
    /\ UNCHANGED <<config, store, cmds, handles, issued, phase, pol>>

InitIncr ==
    /\ config \in MainConfigs
    /\ \E e \in Counters :
          store = [k \in StoreKeys(config) |->
                      IF k = GetKeyWithPrefix(config, <<"a">>) THEN e ELSE Absent]
    /\ cmds = <<>>
    /\ handles = <<>>
    /\ issued = <<>>
    /\ phase = "Open"
    /\ ret = [initial |-> store, call |-> [i \in Callers |-> Idle]]
    /\ pol = NoCall

NextIncr ==
    \E i \in Callers :
        \/ IncrCall(i)
        \/ IncrServe(i)
        \/ IncrReturn(i)
        \/ IncrLost(i)

SpecIncr == InitIncr /\ [][NextIncr]_vars

-----------------------------------------------------------------------------
(* Two batches of one client: each Pipeline() or TxPipeline() call wraps a  *)
(* new driver pipeline and the client's configuration; cmds, handles,      *)
(* issued, phase and ret hold one entry per batch, pol how it was made     *)

Batches == {1, 2}

\* The calls made on the two batches.
BatchCommands ==
    [op : {"Set"}, key : {<<"a">>}, val : Values, exp : Expirations]
    \cup [op : {"Get"}, key : {<<"a">>}, val : {""}, exp : {0}]

\* &SinglePipeliner{pipe: c.client.Pipeline(), config: c.config}: batch b
\* is a new batch with an empty queue.
Fresh(b, made) ==
    /\ cmds' = [cmds EXCEPT ![b] = <<>>]
    /\ handles' = [handles EXCEPT ![b] = <<>>]
    /\ issued' = [issued EXCEPT ![b] = <<>>]
    /\ phase' = [phase EXCEPT ![b] = "Open"]
    /\ ret' = [ret EXCEPT ![b] = Returned(made, Nil)]
    /\ pol' = [pol EXCEPT ![b] = made]
    /\ UNCHANGED <<config, store>>

Pipeline(b) == Fresh(b, "Pipeline")

TxPipeline(b) == Fresh(b, "TxPipeline")

\* A variant of EnqueueOn for batches that share the client's one driver
\* queue: the command is queued on every batch.
EnqueueOnShared(b, c) ==
    /\ Len(issued[b]) < MaxBatch
    /\ LET h == Len(issued[b]) + 1
       IN  /\ cmds' = [x \in Batches |-> Append(cmds[x], Queued(c, h))]
           /\ issued' = [issued EXCEPT
                            ![b] = Append(@, [key |-> Queued(c, h).key, fate |-> "queued"])]
           /\ handles' = [handles EXCEPT ![b] = Append(@, [val |-> Zero, err |-> Nil])]
           /\ ret' = [ret EXCEPT ![b] = [Returned(c.op, Nil) EXCEPT !.n = h]]
    /\ UNCHANGED <<config, store, phase, pol>>

\* Enqueue on batch b.
EnqueueOn(b, c) ==
    /\ Len(issued[b]) < MaxBatch
    /\ LET h == Len(issued[b]) + 1
       IN  /\ cmds' = [cmds EXCEPT ![b] = Append(@, Queued(c, h))]
           /\ issued' = [issued EXCEPT
                            ![b] = Append(@, [key |-> Queued(c, h).key, fate |-> "queued"])]
           /\ handles' = [handles EXCEPT ![b] = Append(@, [val |-> Zero, err |-> Nil])]
           /\ ret' = [ret EXCEPT ![b] = [Returned(c.op, Nil) EXCEPT !.n = h]]
    /\ UNCHANGED <<config, store, phase, pol>>

\* Exec on batch b.
ExecOn(b) ==
    /\ \E up \in BOOLEAN :
          LET r == pipeExec(store, cmds[b], up)
          IN  /\ store' = r.store
              /\ issued' = [issued EXCEPT ![b] = Settle(@, cmds[b], r.fate)]
              /\ ret' = [ret EXCEPT ![b] = ExecReturn(r, Len(cmds[b]))]
    /\ cmds' = [cmds EXCEPT ![b] = <<>>]
    /\ phase' = [phase EXCEPT ![b] = IF @ = "Open" THEN "Executed" ELSE @]
    /\ UNCHANGED <<config, handles, pol>>

\* Discard on batch b.
DiscardOn(b) ==
    /\ cmds' = [cmds EXCEPT ![b] = <<>>]
    /\ ret' = [ret EXCEPT ![b] = Returned("Discard", Nil)]
    /\ issued' = [issued EXCEPT ![b] = Settle(@, cmds[b], "discarded")]
    /\ phase' = [phase EXCEPT ![b] = IF @ = "Open" THEN "Discarded" ELSE @]
    /\ UNCHANGED <<config, store, handles, pol>>

\* Close on batch b.
CloseOn(b) ==
    /\ ret' = [ret EXCEPT ![b] = Returned("Close", Nil)]
    /\ UNCHANGED <<config, store, cmds, handles, issued, phase, pol>>

\* A client on an empty key space and two batches from Pipeline().
InitTwo ==
    /\ config \in MainConfigs
    /\ store = [k \in StoreKeys(config) |-> Absent]
    /\ cmds = [b \in Batches |-> <<>>]
    /\ handles = [b \in Batches |-> <<>>]
    /\ issued = [b \in Batches |-> <<>>]
    /\ phase = [b \in Batches |-> "Open"]
    /\ ret = [b \in Batches |-> Returned("Pipeline", Nil)]
    /\ pol = [b \in Batches |-> "Pipeline"]

NextTwo ==
    \E b \in Batches :
        \/ Pipeline(b)
        \/ TxPipeline(b)
        \/ \E c \in BatchCommands : EnqueueOn(b, c)
        \/ ExecOn(b)
        \/ DiscardOn(b)
        \/ CloseOn(b)

SpecTwo == InitTwo /\ [][NextTwo]_vars

-----------------------------------------------------------------------------
(* The three topologies side by side: a single-node, a cluster and a       *)
(* sentinel deployment with the same prefix and default TTL, each on a     *)
(* store of its own, given the same calls; store, cmds, handles, issued,   *)
(* phase and ret hold one entry per topology, pol what the clients' reads  *)
(* returned                                                                *)

Topologies == {ModeSingle, ModeCluster, ModeSentinel}

TopoConfigs ==
    {[KeyPrefix |-> <<"p">>, DefaultTTL |-> 2], [KeyPrefix |-> <<>>, DefaultTTL |-> 0]}

\* The calls made on the batches of the three deployments.
TopoCommands ==
    [op : {"Set"}, key : {<<"a">>}, val : Values, exp : SetExpirations]
    \cup [op : {"Get"}, key : {<<"a">>}, val : {""}, exp : {0}]

\* Get and Set of SinglePipeliner: the command queued for c.
SingleQueued(cfg, c, h) ==
    [op |-> c.op,
     key |-> GetKeyWithPrefix(cfg, c.key),
     val |-> c.val,
     exp |-> IF c.op \in {"Set", "SetNX"} THEN GetTTL(cfg, c.exp) ELSE 0,
     h |-> h]

\* A variant of ClusterQueued that passes the caller's expiration on.
ClusterQueuedRawTTL(cfg, c, h) ==
    [op |-> c.op,
     key |-> GetKeyWithPrefix(cfg, c.key),
     val |-> c.val,
     exp |-> IF c.op \in {"Set", "SetNX"} THEN c.exp ELSE 0,
     h |-> h]

\* Get and Set of ClusterPipeliner: the command queued for c.
ClusterQueued(cfg, c, h) ==
    [op |-> c.op,
     key |-> GetKeyWithPrefix(cfg, c.key),
     val |-> c.val,
     exp |-> IF c.op \in {"Set", "SetNX"} THEN GetTTL(cfg, c.exp) ELSE 0,
     h |-> h]

\* SinglePipeliner.Exec: nil and the error, or every command in order.
SingleExec(r, n) ==
    IF r.err # Nil
    THEN [NoRet EXCEPT !.op = "Exec", !.n = n, !.err = r.err,
                       !.replies = r.replies, !.completed = r.completed]
    ELSE [NoRet EXCEPT !.op = "Exec", !.n = n, !.results = r.replies,
                       !.resultsNil = FALSE,
                       !.replies = r.replies, !.completed = r.completed]

\* ClusterPipeliner.Exec.
ClusterExec(r, n) ==
    IF r.err # Nil
    THEN [NoRet EXCEPT !.op = "Exec", !.n = n, !.err = r.err,
                       !.replies = r.replies, !.completed = r.completed]
    ELSE [NoRet EXCEPT !.op = "Exec", !.n = n, !.results = r.replies,
                       !.resultsNil = FALSE,
                       !.replies = r.replies, !.completed = r.completed]

\* The batch of a SentinelClient is a SinglePipeliner.
QueuedOn(t, cfg, c, h) ==
    IF t = ModeCluster THEN ClusterQueued(cfg, c, h) ELSE SingleQueued(cfg, c, h)

ExecReturnOn(t, r, n) ==
    IF t = ModeCluster THEN ClusterExec(r, n) ELSE SingleExec(r, n)

\* The same enqueue on the batch of each deployment.
TopoEnqueue(c) ==
    /\ \A t \in Topologies : Len(issued[t]) < MaxCmds
    /\ cmds' = [t \in Topologies |->
                   Append(cmds[t], QueuedOn(t, config, c, Len(issued[t]) + 1))]
    /\ issued' = [t \in Topologies |->
                     Append(issued[t],
                            [key |-> QueuedOn(t, config, c, Len(issued[t]) + 1).key,
                             fate |-> "queued"])]
    /\ handles' = [t \in Topologies |-> Append(handles[t], [val |-> Zero, err |-> Nil])]
    /\ ret' = [t \in Topologies |->
                  [Returned(c.op, Nil) EXCEPT !.n = Len(issued[t]) + 1]]
    /\ UNCHANGED <<config, store, phase, pol>>

\* Exec on the batch of each deployment, the stores being all reachable
\* or all unreachable.
TopoExec ==
    /\ \E up \in BOOLEAN :
          /\ store' = [t \in Topologies |-> pipeExec(store[t], cmds[t], up).store]
          /\ issued' = [t \in Topologies |->
                           Settle(issued[t], cmds[t], pipeExec(store[t], cmds[t], up).fate)]
          /\ ret' = [t \in Topologies |->
                        ExecReturnOn(t, pipeExec(store[t], cmds[t], up), Len(cmds[t]))]
    /\ cmds' = [t \in Topologies |-> <<>>]
    /\ phase' = [t \in Topologies |-> IF phase[t] = "Open" THEN "Executed" ELSE phase[t]]
    /\ UNCHANGED <<config, handles, pol>>

\* Discard on the batch of each deployment.
TopoDiscard ==
    /\ cmds' = [t \in Topologies |-> <<>>]
    /\ ret' = [t \in Topologies |-> Returned("Discard", Nil)]
    /\ issued' = [t \in Topologies |-> Settle(issued[t], cmds[t], "discarded")]
    /\ phase' = [t \in Topologies |-> IF phase[t] = "Open" THEN "Discarded" ELSE phase[t]]
    /\ UNCHANGED <<config, store, handles, pol>>

\* Get of SingleClient and of SentinelClient for the same key.
TopoGet ==
    /\ \E key \in CallerKeys : \E up \in BOOLEAN :
          pol' = [t \in {ModeSingle, ModeSentinel} |->
                     LET c == CHOOSE d \in DriverCommands(GetKeyWithPrefix(config, key)) :
                                  d.op = "Get"
                         result == DriverResult(store[t], c, up)
                         out == IF t = ModeSingle THEN SingleRead(result)
                                ELSE SentinelRead(result)
                     IN  [op |-> "Get", key |-> c.key, val |-> out.val, err |-> out.err]]
    /\ UNCHANGED <<config, store, cmds, handles, issued, phase, ret>>

NoRead == [op |-> "none", key |-> <<>>, val |-> Zero, err |-> Nil]

InitTopo ==
    /\ config \in TopoConfigs
    /\ store = [t \in Topologies |-> [k \in StoreKeys(config) |-> Absent]]
    /\ cmds = [t \in Topologies |-> <<>>]
    /\ handles = [t \in Topologies |-> <<>>]
    /\ issued = [t \in Topologies |-> <<>>]
    /\ phase = [t \in Topologies |-> "Open"]
    /\ ret = [t \in Topologies |-> NoRet]
    /\ pol = [t \in {ModeSingle, ModeSentinel} |-> NoRead]

NextTopo ==
    \/ \E c \in TopoCommands : TopoEnqueue(c)
    \/ TopoExec
    \/ TopoDiscard
    \/ TopoGet

SpecTopo == InitTopo /\ [][NextTopo]_vars

-----------------------------------------------------------------------------
(* Keys and Scan of a client whose prefix may hold the glob character: the *)
(* store then lists keys that do not start with the prefix                 *)

StripPrefixes == {<<"*">>, <<"p">>, <<>>}

StripConfigs == [KeyPrefix : StripPrefixes, DefaultTTL : {2}]

StripKeySpace == KeySpace \cup {<<"*">> \o k : k \in SharedKeys}

\* A client on an empty store it shares with the clients of Peers.
InitStrip ==
    /\ config \in StripConfigs
    /\ store = [k \in StripKeySpace |-> Owned(Absent, {})]
    /\ cmds = <<>>
    /\ handles = <<>>
    /\ issued = <<>>
    /\ phase = "Open"
    /\ ret = NoRet
    /\ pol = NoCall

NextStrip ==
    \/ \E k \in SharedKeys : SetBy(config, k)
    \/ \E cfg \in Peers : \E k \in SharedKeys : SetBy(cfg, k)
    \/ ClientKeys
    \/ ClientScan

SpecStrip == InitStrip /\ [][NextStrip]_vars

-----------------------------------------------------------------------------
(* Properties of the batch *)

HandleNumbers == 1 .. Len(handles)
Unresolved == [val |-> Zero, err |-> Nil]
Failed(r) == r.err \notin {Nil, RedisNil}
ExecReturned == ret.op = "Exec"
InvalidUse == {ErrPipelineEmpty, ErrPipelineClosed}

\* C1: after an Exec that returns no top-level error, the handle of every
\* executed command reports the value and the error of the result at that
\* command's position in the returned list.
C1_HandlesReportResults ==
    (ExecReturned /\ ret.err = Nil) =>
        \A i \in 1 .. Len(ret.results) :
            /\ handles[ret.results[i].h].val = ret.results[i].val
            /\ handles[ret.results[i].h].err = ret.results[i].err

\* C2: when the round trip of a batch of N commands completes, Exec returns
\* a list of exactly N results, the i-th being the store's reply to the
\* i-th enqueued command.
C2_ExecReturnsEveryResultInOrder ==
    (ExecReturned /\ ret.completed) =>
        /\ Len(ret.results) = ret.n
        /\ \A i \in 1 .. ret.n : ret.results[i] = ret.replies[i]
        /\ \A i \in 1 .. ret.n : \A j \in 1 .. ret.n :
              i < j => ret.replies[i].h < ret.replies[j].h

\* C3: when the round trip completes and some command failed at the store,
\* Exec returns a nil error together with the full result list.
C3_CommandFailureIsNotExecError ==
    (/\ ExecReturned
     /\ ret.completed
     /\ \E i \in 1 .. Len(ret.replies) : Failed(ret.replies[i])) =>
        /\ ret.err = Nil
        /\ ~ret.resultsNil
        /\ Len(ret.results) = ret.n

\* C4: in an executed batch holding a command that failed at the store
\* followed by one that succeeded, the handle of every failed command has
\* a non-nil error, and the handle of every other command has a nil error
\* and the value the store replied.
C4_FailureStaysOnItsOwnHandle ==
    (/\ ExecReturned
     /\ ret.completed
     /\ \E i \in 1 .. Len(ret.replies) : \E j \in 1 .. Len(ret.replies) :
           i < j /\ Failed(ret.replies[i]) /\ ret.replies[j].err = Nil) =>
        \A i \in 1 .. Len(ret.replies) :
            LET r == ret.replies[i]
            IN  IF r.err # Nil
                THEN handles[r.h].err # Nil
                ELSE handles[r.h].err = Nil /\ handles[r.h].val = r.val

\* C5: Discard returns nil, leaves the store as it is and sends nothing,
\* now or later (the queue is empty after it); and a client Exists on keys
\* that no command sent to the store has named returns 0.
C5_DiscardNeverExecutes ==
    /\ [][Discard =>
            /\ store' = store
            /\ SentKeys' = SentKeys
            /\ cmds' = <<>>
            /\ ret'.err = Nil]_vars
    /\ []((/\ ret.op = "ClientExists"
           /\ \A i \in 1 .. Len(ret.keys) : ret.keys[i] \notin SentKeys)
          => ret.n = 0)

\* A client Exists on a key that only a discarded command named, asked
\* after the Discard, returned 0.
C5_Witness ==
    /\ phase = "Discarded"
    /\ ret.op = "ClientExists"
    /\ ret.n = 0
    /\ \E h \in HandleNumbers :
          /\ issued[h].fate = "discarded"
          /\ issued[h].key = ret.keys[1]

\* C6: on a batch that is Executed or Discarded, a further Exec or Discard
\* returns an invalid-use error, and a further enqueue is refused: nothing
\* is queued and the handle it returns carries an invalid-use error.
C6_TerminalBatchRejectsUse ==
    [][phase # "Open" =>
          /\ (Exec => ret'.err \in InvalidUse)
          /\ (Discard => ret'.err \in InvalidUse)
          /\ ((\E c \in CallerCommands : Enqueue(c)) =>
                 /\ cmds' = cmds
                 /\ handles'[Len(handles')].err \in InvalidUse)]_vars

\* C7: an enqueue call leaves the store as it is and sends nothing to it;
\* the store changes, and commands reach it, only in an Exec step.
C7_EnqueueIsDeferred ==
    /\ [][(\E c \in CallerCommands : Enqueue(c)) =>
            /\ store' = store
            /\ SentKeys' = SentKeys
            /\ \A h \in 1 .. Len(issued) : issued'[h] = issued[h]
            /\ issued'[Len(issued')].fate = "queued"]_vars
    /\ [][(store' # store \/ SentKeys' # SentKeys) => Exec]_vars

\* Two or more commands, a Set among them, are queued, and another caller's
\* Exists still finds the key space empty.
C7_Witness ==
    /\ Len(cmds) >= 2
    /\ \E i \in 1 .. Len(cmds) : cmds[i].op = "Set"
    /\ \A k \in DOMAIN store : store[k] = Absent
    /\ SentKeys = {}
    /\ ret.op = "ClientExists"
    /\ ret.n = 0

\* C8: Close can be called in every state, returns nil, and changes
\* neither the batch state, the queue, the store, what was sent, nor any
\* handle.
C8_CloseIsANoOp ==
    /\ [](ENABLED Close)
    /\ [][Close =>
            /\ ret'.op = "Close"
            /\ ret'.err = Nil
            /\ UNCHANGED <<store, cmds, handles, issued, phase>>]_vars

\* Close returned on a batch that has executed commands and holds queued
\* ones.
C8_Witness ==
    /\ ret.op = "Close"
    /\ phase = "Executed"
    /\ cmds # <<>>
    /\ \E h \in HandleNumbers : issued[h].fate = "sent"

\* C9: once the batch is Executed or Discarded no step changes or removes
\* a handle; and the handle of every discarded command is unresolved:
\* zero value, nil error.
C9_HandlesAreFrozen ==
    /\ [][phase # "Open" =>
            /\ Len(handles') >= Len(handles)
            /\ \A h \in HandleNumbers : handles'[h] = handles[h]]_vars
    /\ [](\A h \in HandleNumbers :
             issued[h].fate = "discarded" => handles[h] = Unresolved)

\* After a Discard, commands enqueued later were executed with replies from
\* the store, and the batch holds handles of discarded commands.
C9_Witness ==
    /\ phase = "Discarded"
    /\ ExecReturned
    /\ ret.completed
    /\ Len(ret.replies) > 0
    /\ \E h \in HandleNumbers : issued[h].fate = "discarded"

-----------------------------------------------------------------------------
(* Properties of the policy *)

\* C10: GetKeyWithPrefix(key) is the prefix's characters followed by the
\* key's characters when the prefix is non-empty, and the key itself when
\* it is empty, for every key, the empty one included.
C10_GetKeyWithPrefix ==
    pol.fn = "GetKeyWithPrefix" =>
        LET p == config.KeyPrefix
            k == pol.key
            o == pol.out
        IN  /\ Len(o) = Len(p) + Len(k)
            /\ \A i \in 1 .. Len(p) : o[i] = p[i]
            /\ \A i \in 1 .. Len(k) : o[Len(p) + i] = k[i]
            /\ (p = <<>> => o = k)

\* GetKeyWithPrefix was applied to the empty key under a non-empty prefix.
C10_Witness ==
    /\ pol.fn = "GetKeyWithPrefix"
    /\ config.KeyPrefix # <<>>
    /\ pol.key = <<>>
    /\ pol.out = config.KeyPrefix

\* C11: GetTTL(d) is d for every d > 0 and the configured DefaultTTL for
\* every d <= 0, zero and negative alike; with DefaultTTL = 0 that is 0.
C11_GetTTL ==
    pol.fn = "GetTTL" =>
        /\ (pol.ttl >= 1 => pol.eff = pol.ttl)
        /\ (pol.ttl < 1 => pol.eff = config.DefaultTTL)
        /\ (pol.ttl < 1 /\ config.DefaultTTL = 0 => pol.eff = 0)

\* GetTTL was applied to a zero duration under a positive DefaultTTL and
\* gave the default.
C11_Witness ==
    /\ pol.fn = "GetTTL"
    /\ pol.ttl = 0
    /\ config.DefaultTTL > 0
    /\ pol.eff = config.DefaultTTL

-----------------------------------------------------------------------------
(* Properties of the configuration and the factory *)

ValidSingle(c) == c.Mode = ModeSingle /\ ~c.Single.isNil /\ c.Single.Addr # ""
ValidCluster(c) == c.Mode = ModeCluster /\ ~c.Cluster.isNil /\ c.Cluster.Addrs # <<>>
ValidSentinel(c) ==
    /\ c.Mode = ModeSentinel
    /\ ~c.Sentinel.isNil
    /\ c.Sentinel.Addrs # <<>>
    /\ c.Sentinel.MasterName # ""

\* The errors that name something the configuration c lacks.
MissingErrors(c) ==
    CASE c.Mode = ModeSingle ->
            IF c.Single.isNil THEN {ErrMissingSingleConfig}
            ELSE IF c.Single.Addr = "" THEN {ErrMissingAddr} ELSE {}
      [] c.Mode = ModeCluster ->
            IF c.Cluster.isNil THEN {ErrMissingClusterConfig}
            ELSE IF c.Cluster.Addrs = <<>> THEN {ErrMissingAddrs} ELSE {}
      [] c.Mode = ModeSentinel ->
            IF c.Sentinel.isNil THEN {ErrMissingSentinelConfig}
            ELSE (IF c.Sentinel.Addrs = <<>> THEN {ErrMissingAddrs} ELSE {}) \cup
                 (IF c.Sentinel.MasterName = "" THEN {ErrMissingMasterName} ELSE {})
      [] OTHER -> {ErrInvalidMode}

\* c with the sub-configurations of the modes it does not select removed.
SelectedOnly(c) ==
    [c EXCEPT !.Single = IF c.Mode = ModeSingle THEN @ ELSE NoSingle,
              !.Cluster = IF c.Mode = ModeCluster THEN @ ELSE NoCluster,
              !.Sentinel = IF c.Mode = ModeSentinel THEN @ ELSE NoSentinel]

C19_NegativeDBRejected ==
    (/\ ret.op = "Validate"
     /\ ret.arg.Mode = ModeSingle
     /\ ~ret.arg.Single.isNil
     /\ ret.arg.Single.DB < 0) => ret.err # Nil

\* C20: CreateClient returns a client only with a nil error and after the
\* Ping of the driver it built succeeded; when the TLS build or the Ping
\* fails it returns a nil client and an error, and after a failed Ping the
\* driver is closed; in each of the three modes.
C20_FactoryFailsClosed ==
    ret.op = "CreateClient" =>
        /\ ret.client # "nil" => ret.probe = "ok" /\ ret.err = Nil /\ ret.driver = "open"
        /\ ret.probe = "failed" => ret.client = "nil" /\ ret.err # Nil /\ ret.driver = "closed"
        /\ ret.tls = "failed" => ret.client = "nil" /\ ret.err # Nil /\ ret.driver = "none"
        /\ ret.client = "nil" <=> ret.err # Nil

\* CreateClient of a sentinel factory returned after a failed Ping.
C20_Witness ==
    /\ ret.op = "CreateClient"
    /\ ret.arg.Mode = ModeSentinel
    /\ ret.probe = "failed"
    /\ ret.client = "nil"

-----------------------------------------------------------------------------
(* Properties of clients sharing a store *)

Listed == ret.op \in {"Keys", "Scan"} /\ ret.err = Nil

Comparable(p, q) ==
    \/ Len(p) <= Len(q) /\ SubSeq(q, 1, Len(p)) = p
    \/ Len(q) <= Len(p) /\ SubSeq(p, 1, Len(q)) = q

\* C12: under a non-empty prefix, every store key of a Keys or Scan reply
\* that this client wrote is handed back as the caller's key k, the one
\* with prefix + k = store key, the empty key included.
C12_PrefixRoundTrip ==
    (Listed /\ config.KeyPrefix # <<>>) =>
        /\ Len(ret.keys) = Len(ret.found)
        /\ \A i \in 1 .. Len(ret.found) :
              config.KeyPrefix \in store[ret.found[i]].by =>
                  config.KeyPrefix \o ret.keys[i] = ret.found[i]

\* C16 as stated: under a non-empty prefix no store key has been written
\* by clients of two different prefixes, and no key of a Keys or Scan
\* reply was written by a client of another prefix.
C16_NamespaceIsolation ==
    config.KeyPrefix # <<>> =>
        /\ \A k \in DOMAIN store : Cardinality(store[k].by) <= 1
        /\ Listed => \A i \in 1 .. Len(ret.found) :
                        store[ret.found[i]].by \subseteq {config.KeyPrefix}

\* C16 amended: clients whose prefixes are not a prefix of one another
\* never write the same store key, and a key of a Keys or Scan reply was
\* written only by this client or by clients whose prefix is a prefix of,
\* or is prefixed by, this client's.
C16_IsolationOfUnrelatedPrefixes ==
    config.KeyPrefix # <<>> =>
        /\ \A k \in DOMAIN store :
              \A p \in store[k].by : \A q \in store[k].by : Comparable(p, q)
        /\ Listed => \A i \in 1 .. Len(ret.found) :
                        \A p \in store[ret.found[i]].by :
                            Comparable(p, config.KeyPrefix)

\* Keys("*") of the client with prefix "p" returned its own key while a
\* key of the client with prefix "a" was in the store.
C16_Witness ==
    /\ ret.op = "Keys"
    /\ ret.err = Nil
    /\ config.KeyPrefix = <<"p">>
    /\ ret.arg = <<"*">>
    /\ Len(ret.found) > 0
    /\ \E k \in DOMAIN store : <<"a">> \in store[k].by

-----------------------------------------------------------------------------
(* Properties of the arguments handed to the driver *)

\* C13: every key handed to the driver is prefix + the caller's key and
\* nothing else is changed: the multi-key commands and Eval/EvalSha prefix
\* every element of keys and forward args; MSet, for a list of any length,
\* prefixes the elements at the key positions and forwards the others; the
\* Script commands forward their arguments and name no key.
C13_KeysPrefixedNothingElseAltered ==
    /\ ret.op \in MultiKeyOps \cup {"Eval", "EvalSha"} =>
          /\ Len(ret.sentKeys) = Len(ret.keys)
          /\ \A i \in 1 .. Len(ret.keys) :
                ret.sentKeys[i] = config.KeyPrefix \o ret.keys[i]
          /\ ret.sentArgs = ret.args
    /\ ret.op = "MSet" =>
          /\ Len(ret.sentArgs) = Len(ret.args)
          /\ \A j \in 1 .. Len(ret.args) :
                ret.sentArgs[j] =
                    IF j % 2 = 1 THEN Str(config.KeyPrefix \o ret.args[j].s)
                    ELSE ret.args[j]
    /\ ret.op \in {"ScriptExists", "ScriptLoad", "ScriptFlush", "ScriptKill"} =>
          ret.sentKeys = <<>> /\ ret.sentArgs = ret.args

-----------------------------------------------------------------------------
(* Properties of Set and SetNX *)

\* The expiration the store is to be given for a requested one.
Resolved(exp) == IF exp > 0 THEN exp ELSE config.DefaultTTL

\* No command of the queue after position i writes the key of command i.
LastWrite(queue, i) ==
    \A j \in i + 1 .. Len(queue) : queue[j].key # queue[i].key \/ queue[j].op # "Set"

\* C14: a Set of the client, and a SetNX of the client that took effect,
\* leave the value under prefix + key with the requested expiration when
\* that is positive and the default otherwise; a Set or SetNX enqueued in a
\* batch is queued with that store key, value and expiration, and a
\* completed Exec leaves the key of every queued Set that no later Set
\* overwrites, and of every queued SetNX that is the only command on a key
\* that was absent, holding the queued value with the queued expiration.
C14_SetStoresUnderPrefixWithResolvedTTL ==
    /\ []((/\ ret.op \in {"ClientSet", "ClientSetNX"}
           /\ ret.err = Nil
           /\ ret.ok) =>
             store[config.KeyPrefix \o ret.key] = StringEntry(ret.val, Resolved(ret.exp)))
    /\ [][\A c \in SetCommands : Enqueue(c) =>
             LET q == cmds'[Len(cmds')]
             IN  /\ q.op = c.op
                 /\ q.key = config.KeyPrefix \o c.key
                 /\ q.val = c.val
                 /\ q.exp = Resolved(c.exp)]_vars
    /\ [][(Exec /\ ret'.completed) =>
             \A i \in 1 .. Len(cmds) :
                 LET q == cmds[i]
                     stored == store'[q.key] = StringEntry(q.val, q.exp)
                 IN  /\ (q.op = "Set" /\ LastWrite(cmds, i)) => stored
                     /\ (/\ q.op = "SetNX"
                         /\ store[q.key].type = "none"
                         /\ \A j \in 1 .. Len(cmds) : j # i => cmds[j].key # q.key)
                        => stored]_vars

\* A batch Set with a positive expiration was executed and the key holds
\* the value with that expiration, while a key set on the client without
\* an expiration holds the default.
C14_Witness ==
    /\ ret.op = "Exec"
    /\ ret.completed
    /\ \E h \in 1 .. Len(issued) : issued[h].fate = "sent"
    /\ store[<<"p", "a">>] = StringEntry("v1", 1)
    /\ store[<<"p", "b">>] = StringEntry("v1", config.DefaultTTL)

-----------------------------------------------------------------------------
(* Properties of the client's reads and writes *)

\* C15: under a positive default TTL, every key present in the store
\* carries an expiration.
C15_EveryKeyExpires ==
    config.DefaultTTL > 0 =>
        \A k \in DOMAIN store : store[k].type # "none" => store[k].ttl > 0

-----------------------------------------------------------------------------
(* Properties of the factory's life *)

Constructors ==
    {"NewFactory", "NewClientFromConfig", "NewSingleClient", "NewClusterClient",
     "NewSentinelClient"}

\* C21: NewFactory and the convenience constructors, given a configuration
\* that Validate rejects, return a nil factory and client and an error that
\* errors.Is matches with the error Validate returned, which names
\* something the configuration lacks; no TLS setup is built, no driver is
\* constructed and no Ping is sent.
C21_ConfigErrorsFailFast ==
    (/\ ret.op \in Constructors
     /\ ~ret.arg.isNil
     /\ Validate(ret.arg.cfg) # Nil) =>
        /\ ret.factory = "nil"
        /\ ret.client = "nil"
        /\ ret.err # Nil
        /\ errorsIs(ret, Validate(ret.arg.cfg))
        /\ Validate(ret.arg.cfg) \in MissingErrors(ret.arg.cfg)
        /\ ret.tls = "none" /\ ret.driver = "none" /\ ret.probe = "none"

\* NewSentinelClient without a master name returned the wrapped
\* ErrMissingMasterName.
C21_Witness ==
    /\ ret.op = "NewSentinelClient"
    /\ ret.arg.cfg.Sentinel.Addrs # <<>>
    /\ ret.client = "nil"
    /\ errorsIs(ret, ErrMissingMasterName)

-----------------------------------------------------------------------------
(* Properties of the error classification *)

\* C22: the error CreateClient returns when the liveness probe fails is a
\* connection error: IsConnectionError holds of it or of the error it
\* wraps.
C22_ProbeFailureIsConnectionError ==
    (ret.op = "CreateClient" /\ ret.probe = "failed") =>
        IsConnectionError(ret.err) \/ IsConnectionError(ret.cause)

-----------------------------------------------------------------------------
(* Properties of concurrent callers *)

IsCounter(e) == e.type = "none" \/ (e.type = "string" /\ IsInt(e.str))
CounterValue(e) == IF e.type = "none" THEN 0 ELSE Atoi(e.str)

\* Both callers called Incr on the same key, which held a counter, and
\* both have the store's reply.
BothIncremented ==
    /\ \A i \in Callers : ret.call[i].pc = "returned" /\ ret.call[i].err # ConnRefused
    /\ ret.call[1].key = ret.call[2].key
    /\ IsCounter(ret.initial[ret.call[1].key])

\* C23: when two callers have called Incr on the same counter key through
\* the same client and both have the store's reply, both calls succeeded,
\* the values they returned differ, and the key holds its initial value
\* plus 2, whatever the order of the callers' steps.
C23_NoLostUpdate ==
    BothIncremented =>
        LET key == ret.call[1].key
            n == CounterValue(ret.initial[key])
        IN  /\ \A i \in Callers : ret.call[i].err = Nil
            /\ ret.call[1].val # ret.call[2].val
            /\ {ret.call[1].val, ret.call[2].val} = {IntVal(n + 1), IntVal(n + 2)}
            /\ store[key].type = "string"
            /\ store[key].str = Itoa(n + 2)

\* Both callers incremented a counter that held 1, and the store served
\* caller 2 before caller 1.
C23_Witness ==
    /\ BothIncremented
    /\ CounterValue(ret.initial[ret.call[1].key]) = 1
    /\ ret.call[2].val = IntVal(2)
    /\ ret.call[1].val = IntVal(3)

-----------------------------------------------------------------------------
(* Properties of two batches *)

Other(b) == CHOOSE x \in Batches : x # b

\* A call on batch b.
CallOn(b) ==
    \/ Pipeline(b)
    \/ TxPipeline(b)
    \/ \E c \in BatchCommands : EnqueueOn(b, c)
    \/ ExecOn(b)
    \/ DiscardOn(b)
    \/ CloseOn(b)

\* C24: Pipeline() and TxPipeline() return a batch with an empty queue and
\* no handles, whose commands are queued under the client's prefix; and a
\* call on one batch (a new batch in its place, an enqueue, Exec, Discard
\* or Close) leaves the queue, the handles, the history and the last
\* results of the other batch as they were.
C24_BatchesAreIndependent ==
    /\ [][\A b \in Batches :
            (Pipeline(b) \/ TxPipeline(b)) =>
                cmds'[b] = <<>> /\ handles'[b] = <<>> /\ phase'[b] = "Open"]_vars
    /\ [](\A b \in Batches : \A i \in 1 .. Len(cmds[b]) :
            cmds[b][i].key \in StoreKeys(config))
    /\ [][\A b \in Batches :
            CallOn(b) =>
                /\ cmds'[Other(b)] = cmds[Other(b)]
                /\ handles'[Other(b)] = handles[Other(b)]
                /\ issued'[Other(b)] = issued[Other(b)]
                /\ phase'[Other(b)] = phase[Other(b)]
                /\ ret'[Other(b)] = ret[Other(b)]]_vars

\* Batch 1 has executed its command, a Set the store applied, while batch
\* 2, made by TxPipeline, still holds a queued Get whose handle is unset.
C24_Witness ==
    /\ ret[1].op = "Exec" /\ ret[1].n > 0 /\ ret[1].completed
    /\ store[GetKeyWithPrefix(config, <<"a">>)].type = "string"
    /\ pol[2] = "TxPipeline"
    /\ Len(cmds[2]) > 0
    /\ \A i \in 1 .. Len(cmds[2]) : cmds[2][i].op = "Get"
    /\ \A h \in 1 .. Len(issued[2]) : issued[2][h].fate = "queued"

-----------------------------------------------------------------------------
(* Properties of the three topologies *)

-----------------------------------------------------------------------------
(* Properties of the batch's lifetime *)

DriverReported == IF ret.completed THEN cmdsFirstErr(ret.replies) ELSE ConnRefused

-----------------------------------------------------------------------------
(* Properties of the listing *)

StartsWith(s, pre) == Len(s) >= Len(pre) /\ SubSeq(s, 1, Len(pre)) = pre

\* C28: Keys and Scan send the prefix followed by the caller's pattern;
\* with a non-empty prefix every listed key longer than the prefix comes
\* back without its first len(prefix) characters, whether it starts with
\* the prefix or not, and every listed key no longer than the prefix comes
\* back as it is; with an empty prefix the keys come back as listed.
C28_StripByLength ==
    (ret.op \in {"Keys", "Scan"} /\ ret.err = Nil) =>
        LET n == Len(config.KeyPrefix)
        IN  /\ ret.sent = config.KeyPrefix \o ret.arg
            /\ Len(ret.keys) = Len(ret.found)
            /\ \A i \in 1 .. Len(ret.found) :
                  LET k == ret.found[i]
                  IN  /\ (n > 0 /\ Len(k) > n) =>
                            /\ Len(ret.keys[i]) = Len(k) - n
                            /\ \A j \in 1 .. Len(k) - n : ret.keys[i][j] = k[n + j]
                      /\ Len(k) <= n => ret.keys[i] = k
                      /\ n = 0 => ret.keys[i] = k

\* Keys listed a key longer than the prefix that does not start with it,
\* and a key as long as the prefix.
C28_Witness ==
    /\ ret.op = "Keys"
    /\ ret.err = Nil
    /\ config.KeyPrefix # <<>>
    /\ \E i \in 1 .. Len(ret.found) :
          /\ Len(ret.found[i]) > Len(config.KeyPrefix)
          /\ ~StartsWith(ret.found[i], config.KeyPrefix)
          /\ ret.keys[i] # ret.found[i]
    /\ \E i \in 1 .. Len(ret.found) : Len(ret.found[i]) = Len(config.KeyPrefix)

\* C29: UpdateConfig installs the configuration it is given exactly when
\* that is non-nil and Validate accepts it, and then returns nil; given
\* nil or a configuration Validate rejects it returns an error and leaves
\* the factory's configuration as it was, so that GetConfig, which returns
\* the configuration the factory holds, returns the previous one.
C29_UpdateConfigOnlyIfValid ==
    /\ [][\A in \in ConfigArgs :
            UpdateConfig(in) =>
                IF ~in.isNil /\ Validate(in.cfg) = Nil
                THEN config' = in.cfg /\ ret'.err = Nil
                ELSE config' = config /\ ret'.err # Nil]_vars
    /\ [][GetConfig => ret'.got = config /\ config' = config]_vars

\* UpdateConfig rejected a sentinel configuration without master name
\* while the factory held the cluster configuration of an earlier update.
C29_Witness ==
    /\ ret.op = "UpdateConfig"
    /\ ~ret.arg.isNil
    /\ ret.arg.cfg.Mode = ModeSentinel
    /\ errorsIs(ret, ErrMissingMasterName)
    /\ config.Mode = ModeCluster
    /\ phase = "Installed"

\* C30: the configuration a factory holds passed Validate when NewFactory
\* or UpdateConfig installed it (DefaultConfig for NewFactory(nil)); so
\* while the caller has not written to it since, Validate accepts it, and
\* CreateClient neither reaches the unsupported-mode branch nor reads a
\* nil Single, Cluster or Sentinel of the selected mode.
C30_InstalledConfigIsValid ==
    /\ [](phase = "Installed" => Validate(config) = Nil)
    /\ [][(config' # config /\ phase' = "Installed") => Validate(config') = Nil]_vars
    /\ [][(CreateClient /\ phase = "Installed") =>
            /\ ret'.err # "unsupported mode"
            /\ ret'.err # Panicked.err
            /\ config.Mode = ModeSingle => ~config.Single.isNil
            /\ config.Mode = ModeCluster => ~config.Cluster.isNil
            /\ config.Mode = ModeSentinel => ~config.Sentinel.isNil]_vars

\* CreateClient connected a sentinel client for a factory whose
\* configuration UpdateConfig installed.
C30_Witness ==
    /\ ret.op = "CreateClient"
    /\ phase = "Installed"
    /\ config.Mode = ModeSentinel
    /\ ret.client = "SentinelClient"

====
